---------------------------- MODULE Spec2Model ----------------------------
(***************************************************************************)
(* PrioritizedFifoRateLimiter (src/src/rate-limiter.ts) in front of a      *)
(* TokenBucket (src/src/rolling-window-token-bucket.ts, lines 221-537)     *)
(* that is refilled by a PeriodicTokenRestorer.                            *)
(*                                                                         *)
(* Execution model: JavaScript's single thread.  A step of the model is    *)
(* one synchronous run: a call made by the user of the library (submit a   *)
(* request, cancel one), one job of the promise job queue ("microtasks",   *)
(* strictly FIFO), or one timer callback.  Timer callbacks and the clock   *)
(* only advance when the job queue is empty; calls by the user may come    *)
(* between any two jobs (from the user's own promise chains, or later in   *)
(* the same synchronous run).  An await on a promise costs one job when    *)
(* the promise settles; Promise.race costs one job for the reaction of     *)
(* the input that settles first and one for the await on the race.         *)
(*                                                                         *)
(* The bucket of this specification has no continuous restorer, so its     *)
(* aggregate rate is 0, _restoreContinuousTokens adds 0 tokens and         *)
(* _getWaitTimeForRecheck is never finite: no recheck timer is armed and   *)
(* listeners are woken by the ticks of the periodic restorer.              *)
(***************************************************************************)
EXTENDS Integers, Sequences, FiniteSets, TLC

\* Bounds of the model.
MaxRequests == 2
MaxTime == 1

\* Options the objects are constructed with.
MaxTokens == 2
InitialTokens == 0
MinStaggerTime == 1
RestoreAmount == 1
NEGATIVE_INFINITY == -1000

\* Inputs of limiter.consumeTokensAsync: -1 and MaxTokens + 1 are the token
\* counts the bucket refuses.
Priorities == {1, 2}
TokenCounts == {-1, 1, MaxTokens + 1}

VARIABLES
    now,              \* performance.now()
    tokenContent,     \* TokenBucket._tokenContent
    tokenListeners,   \* TokenBucket._tokenListeners, ascending by count
    awaiters,         \* limiter._awaiters: priority -> FIFO of Awaiter objects
    requests,         \* the promises limiter.consumeTokensAsync returned
    watchers,         \* every watcher _recreateWatcher created
    watcher,          \* limiter._watcher (0: undefined)
    lastConsumed,     \* limiter._lastConsumed
    lastResolved,     \* history: the request resolved last, and when
    microtasks,       \* the promise job queue
    timers,           \* pending timeouts of limiter._delay
    \* State of the bucket on its own (specification BucketSpec):
    rolling,          \* the bucket is a RollingWindowTokenBucket
    history,          \* RollingWindowTokenBucket._history, ascending by timestamp
    continuousTokenRestorers,        \* TokenBucket._continuousTokenRestorers
    discreteTokenRestorers,          \* TokenBucket._discreteTokenRestorers (keys)
    continuousRestoreRatePerMs,      \* TokenBucket._continuousRestoreRatePerMs
    continuousRestoreLastTimestamp,  \* TokenBucket._continuousRestoreLastTimestamp
    checkListenersHandle,            \* deadline of the recheck timeout (0: none)
    cleanUpHandle,                   \* deadline of the clean-up timeout (0: none)
    calls,            \* the onceTokensAvailable and consumeTokensAsync calls made
    outcome,          \* what the call made in the last step returned or threw
    spent,            \* history: tokens consumed, by time, within the window
    \* Restorers and the buckets that share them (specification RestorerSpec):
    buckets,          \* the TokenBucket objects
    periodicRestorers,  \* PeriodicTokenRestorer objects: _listeners, _timerHandle
    intervals         \* the intervals running in the scheduler

limiterVars == <<awaiters, requests, watchers, watcher, lastConsumed, lastResolved, timers>>

bucketVars == <<rolling, history, continuousTokenRestorers, discreteTokenRestorers,
                continuousRestoreRatePerMs, continuousRestoreLastTimestamp, checkListenersHandle, cleanUpHandle,
                calls, outcome, spent>>

restorerVars == <<buckets, periodicRestorers, intervals>>

vars == <<now, tokenContent, tokenListeners, awaiters, requests,
          watchers, watcher, lastConsumed, lastResolved, microtasks, timers,
          rolling, history, continuousTokenRestorers, discreteTokenRestorers,
          continuousRestoreRatePerMs, continuousRestoreLastTimestamp,
          checkListenersHandle, cleanUpHandle,
          calls, outcome, spent, buckets, periodicRestorers, intervals>>

\* No bucket beside the one of the first variables, and no restorer object.
NoSharedRestorers ==
    /\ buckets = <<>>
    /\ periodicRestorers = <<>>
    /\ intervals = {}

\* ------------------------------------------------------------------------
\* Settled and unsettled promises.  An Error carries the request whose token
\* count made the bucket throw it: two throws are two different objects.
Pending == [kind |-> "pending", src |-> 0]
Fulfilled == [kind |-> "fulfilled", src |-> 0]
CanceledError == [kind |-> "CanceledError", src |-> 0]
Error(a) == [kind |-> "Error", src |-> a]

IsSettled(r) == r.kind # "pending"
IsRejected(r) == r.kind \in {"CanceledError", "Error"}

\* The state one synchronous run works on.
Cur ==
    [now |-> now, tokenContent |-> tokenContent, tokenListeners |-> tokenListeners,
     awaiters |-> awaiters, requests |-> requests, watchers |-> watchers,
     watcher |-> watcher, lastConsumed |-> lastConsumed, lastResolved |-> lastResolved,
     microtasks |-> microtasks, timers |-> timers]

Commit(S) ==
    /\ tokenContent' = S.tokenContent
    /\ tokenListeners' = S.tokenListeners
    /\ awaiters' = S.awaiters
    /\ requests' = S.requests
    /\ watchers' = S.watchers
    /\ watcher' = S.watcher
    /\ lastConsumed' = S.lastConsumed
    /\ lastResolved' = S.lastResolved
    /\ microtasks' = S.microtasks
    /\ timers' = S.timers
    /\ UNCHANGED bucketVars
    /\ UNCHANGED restorerVars

Job(kind, w) == [kind |-> kind, w |-> w]
Enqueue(S, kind, w) == [S EXCEPT !.microtasks = Append(@, Job(kind, w))]


\* ------------------------------------------------------------------------
\* The limiter's priority queue (a red-black tree of Denque FIFOs).
EmptyTree == [k \in {} |-> <<>>]

RemoveAt(q, i) == SubSeq(q, 1, i - 1) \o SubSeq(q, i + 1, Len(q))

\* The awaiter put at the front of its group (queue.unshift) instead.
addAwaiter_Unshift(aw, priority, a) ==
    IF priority \in DOMAIN aw
    THEN [aw EXCEPT ![priority] = <<a>> \o @]
    ELSE [k \in DOMAIN aw \cup {priority} |-> IF k = priority THEN <<a>> ELSE aw[k]]

\* queue.push(awaiter), or a new group holding the awaiter alone.
addAwaiter(aw, priority, a) ==
    IF priority \in DOMAIN aw
    THEN [aw EXCEPT ![priority] = Append(@, a)]
    ELSE [k \in DOMAIN aw \cup {priority} |-> IF k = priority THEN <<a>> ELSE aw[k]]

\* An Awaiter object: id stands for the object's identity (its resolve and
\* reject callbacks), which is also the index of its promise in requests.
Awaiter(a, tokenCount) == [id |-> a, tokenCount |-> tokenCount]
NoAwaiter == Awaiter(0, 0)

\* A predicate that compares the awaiters' values instead of their identity.
SameAwaiter_ByValue(x, a) == x.tokenCount = a.tokenCount

\* The predicates passed to _removeFirstAwaiter compare object identity:
\* x is the queue entry examined, a the awaiter looked for.
SameAwaiter(x, a) == x.id = a.id

FirstMatch(q, a) ==
    IF \E i \in 1..Len(q) : SameAwaiter(q[i], a)
    THEN CHOOSE i \in 1..Len(q) :
            /\ SameAwaiter(q[i], a)
            /\ \A j \in 1..(i - 1) : ~SameAwaiter(q[j], a)
    ELSE 0

\* Whether _removeFirstAwaiter(priority, x => x === a) returns true.
removeFirstAwaiterSucceeds(aw, priority, a) ==
    priority \in DOMAIN aw /\ FirstMatch(aw[priority], a) # 0

\* _removeFirstAwaiter that drops an emptied group only at the end of the tree.
removeFirstAwaiter_KeepsInnerEmptyGroup(aw, priority, a) ==
    IF priority \notin DOMAIN aw THEN aw
    ELSE LET i == FirstMatch(aw[priority], a)
         IN IF i = 0 THEN aw
            ELSE LET q2 == RemoveAt(aw[priority], i)
                 IN IF Len(q2) <= 0 /\ (\A k \in DOMAIN aw : k <= priority)
                    THEN [k \in DOMAIN aw \ {priority} |-> aw[k]]
                    ELSE [aw EXCEPT ![priority] = q2]

\* The tree _removeFirstAwaiter leaves: the first match removed, and the
\* group removed when it is empty.
removeFirstAwaiter(aw, priority, a) ==
    IF priority \notin DOMAIN aw
    THEN aw
    ELSE LET q == aw[priority]
             i == FirstMatch(q, a)
             q2 == IF i = 0 THEN q ELSE RemoveAt(q, i)
         IN IF Len(q2) <= 0
            THEN [k \in DOMAIN aw \ {priority} |-> aw[k]]
            ELSE [aw EXCEPT ![priority] = q2]

\* this._awaiters.begin instead: the least key of the tree.
EndKey_Begin(aw) == CHOOSE k \in DOMAIN aw : \A j \in DOMAIN aw : k <= j

\* this._awaiters.end: the greatest key of the tree.
EndKey(aw) == CHOOSE k \in DOMAIN aw : \A j \in DOMAIN aw : j <= k

\* queue?.peekFront() of the group at this._awaiters.end.
FirstHighestPriorityAwaiter(aw) ==
    IF DOMAIN aw = {} THEN NoAwaiter ELSE Head(aw[EndKey(aw)])

\* The ids of the awaiters in the queue, and the group an awaiter is in.
Queued(aw) == UNION {{aw[k][i].id : i \in 1..Len(aw[k])} : k \in DOMAIN aw}
GroupIds(aw, k) == {aw[k][i].id : i \in 1..Len(aw[k])}
PriorityOf(aw, a) == CHOOSE k \in DOMAIN aw : a \in GroupIds(aw, k)
AwaiterOf(aw, a) ==
    LET q == aw[PriorityOf(aw, a)] IN q[CHOOSE i \in 1..Len(q) : q[i].id = a]

\* ------------------------------------------------------------------------
\* Promises of the requests.  resolve and reject of a settled promise do
\* nothing.  The other fields are history, not program state: paid counts
\* the bucket deductions made on the request's behalf, settles the calls of
\* the promise's resolve and reject, and paidBefore is the set of requests
\* whose tokens were deducted but which were not settled yet when this
\* request was submitted (kept while the request is unsettled); broadcastAt
\* is the number of requests made so far when the Error thrown for this
\* request's token count was first passed to _rejectAllAwaiters (0: never).
NewRequest(before) ==
    [promise |-> Pending, paid |-> 0, settles |-> 0, paidBefore |-> before,
     broadcastAt |-> 0]

resolveAwaiter(S, a) ==
    IF IsSettled(S.requests[a].promise)
    THEN [S EXCEPT !.requests[a].settles = @ + 1]
    ELSE [S EXCEPT !.requests[a].promise = Fulfilled, !.requests[a].paidBefore = {},
                   !.requests[a].settles = @ + 1]

rejectAwaiter(S, a, error) ==
    IF IsSettled(S.requests[a].promise)
    THEN [S EXCEPT !.requests[a].settles = @ + 1]
    ELSE [S EXCEPT !.requests[a].promise = error, !.requests[a].paidBefore = {},
                   !.requests[a].settles = @ + 1]

RECURSIVE rejectEach(_, _, _)
rejectEach(S, q, error) ==
    IF q = <<>> THEN S ELSE rejectEach(rejectAwaiter(S, Head(q).id, error), Tail(q), error)

RECURSIVE rejectGroups(_, _, _, _)
rejectGroups(S, aw, keys, error) ==
    IF keys = {}
    THEN S
    ELSE LET k == CHOOSE x \in keys : \A y \in keys : x <= y
         IN rejectGroups(rejectEach(S, aw[k], error), aw, keys \ {k}, error)

\* Only the group of the highest priority is rejected and removed.
rejectAllAwaiters_EndOnly(S, error) ==
    IF DOMAIN S.awaiters = {}
    THEN S
    ELSE LET k == EndKey(S.awaiters)
         IN rejectEach([S EXCEPT !.awaiters = [j \in DOMAIN @ \ {k} |-> @[j]]],
                       S.awaiters[k], error)

\* Every awaiter is rejected and the collection is left as it is.
rejectAllAwaiters_KeepsQueue(S, error) ==
    rejectGroups(S, S.awaiters, DOMAIN S.awaiters, error)

\* _rejectAllAwaiters: the collection is replaced by an empty one, then every
\* awaiter of the old one is rejected.
rejectAllAwaiters(S, error) ==
    LET S1 == IF error.kind = "Error" /\ S.requests[error.src].broadcastAt = 0
              THEN [S EXCEPT !.requests[error.src].broadcastAt = Len(S.requests)]
              ELSE S
    IN rejectGroups([S1 EXCEPT !.awaiters = EmptyTree], S.awaiters,
                    DOMAIN S.awaiters, error)

\* ------------------------------------------------------------------------
\* Watchers.  pc is where the watcher's async function is suspended:
\*   "awaitPrev"     await prevWatcher.promise
\*   "stagger"       await Promise.race([cancelPromise, delay])
\*   "consume"       await Promise.race([consumePromise, cancelPromise])
\*   "awaitConsume"  await consumePromise, in the catch block
\*   "done"          the function has returned
\* race is the outcome of the race awaited (Pending until an input settles),
\* promise the watcher's own promise, awaiter and priority the locals of
\* that name.  callState, shouldCancel and
\* consumePromise are the bucket.consumeTokensAsync call the watcher made:
\*   "none"      no call made
\*   "waiting"   its listener is registered (cancelWait is set)
\*   "woken"     the listener was resolved, the call has not resumed yet
\*   "canceled"  the listener was removed and rejected by cancelWait
\*   "settled"   the call's async function has returned or thrown
NewWatcher(prev) ==
    [pc |-> "start", prev |-> prev, isCanceled |-> FALSE, race |-> Pending,
     awaiter |-> NoAwaiter, priority |-> 0, callState |-> "none",
     shouldCancel |-> FALSE,
     consumePromise |-> Pending, promise |-> Pending]

\* watcher.cancel(): isCanceled = true and cancelPromise is rejected; the
\* race the watcher awaits, if none of its inputs settled yet, is lost to it.
\* The timeout of a stagger delay that lost its race is dropped here: its
\* callback would resolve a promise nobody awaits any more.
cancelWatcher(S, w) ==
    IF S.watchers[w].isCanceled
    THEN S
    ELSE LET S1 == [S EXCEPT !.watchers[w].isCanceled = TRUE]
         IN IF S.watchers[w].pc \in {"stagger", "consume"} /\ ~IsSettled(S.watchers[w].race)
            THEN Enqueue([S1 EXCEPT !.watchers[w].race = CanceledError,
                                    !.timers = {t \in @ : t.w # w}], "raceReact", w)
            ELSE S1

\* The delay computed without the stagger time.
StaggerMs_NoStagger(S) ==
    IF S.lastConsumed = NEGATIVE_INFINITY
    THEN NEGATIVE_INFINITY
    ELSE S.lastConsumed - S.now

\* this._lastConsumed + this._minStaggerTime - performance.now()
StaggerMs(S) ==
    IF S.lastConsumed = NEGATIVE_INFINITY
    THEN NEGATIVE_INFINITY
    ELSE S.lastConsumed + MinStaggerTime - S.now

\* The stagger: _delay(ms) is created (a resolved promise, or a timeout), then
\* raced against cancelPromise, which comes first in the race.
staggerStep(S, w) ==
    LET ms == StaggerMs(S)
        S1 == [S EXCEPT !.watchers[w].pc = "stagger",
                        !.timers = IF ms <= 0 THEN @
                                   ELSE @ \cup {[w |-> w, deadline |-> S.now + ms]}]
    IN IF S.watchers[w].isCanceled
       THEN Enqueue([S1 EXCEPT !.watchers[w].race = CanceledError], "raceReact", w)
       ELSE IF ms <= 0
            THEN Enqueue([S1 EXCEPT !.watchers[w].race = Fulfilled], "raceReact", w)
            ELSE [S1 EXCEPT !.watchers[w].race = Pending]

\* The new watcher starts its stagger without awaiting its predecessor.
awaitPrevWatcher_NoWait(S, w) == staggerStep(S, w)

\* await prevWatcher.promise: the continuation is queued when the promise
\* settles, at once when it is settled already.
awaitPrevWatcher(S, w) ==
    LET S1 == [S EXCEPT !.watchers[w].pc = "awaitPrev"]
    IN IF IsSettled(S.watchers[S.watchers[w].prev].promise)
       THEN Enqueue(S1, "prevSettled", w)
       ELSE S1

\* _recreateWatcher, up to the first await of the new watcher.
recreateWatcher(S) ==
    LET prev == S.watcher
        w == Len(S.watchers) + 1
        S1 == [S EXCEPT !.watchers = Append(@, NewWatcher(prev)), !.watcher = w]
    IN IF prev = 0
       THEN staggerStep(S1, w)
       ELSE awaitPrevWatcher(cancelWatcher(S1, prev), w)

\* A watcher whose async function has returned: its locals are dead (a
\* bucket call it left unsettled is kept, to be seen).
Finished(rec, result) ==
    [NewWatcher(rec.prev) EXCEPT
        !.pc = "done", !.isCanceled = rec.isCanceled, !.promise = result,
        !.callState = IF rec.callState = "settled" THEN "none" ELSE rec.callState]

\* A watcher nothing refers to any more: it has a successor, and the successor
\* has read its promise.
Collected == [NewWatcher(0) EXCEPT !.pc = "collected"]

\* resolveWatcher() / rejectWatcher(error): the watcher's promise settles and
\* the successor awaiting it is resumed by a job.
settleWatcher(S, w, result) ==
    LET S1 == [S EXCEPT !.watchers[w] = Finished(@, result)]
        next == {s \in 1..Len(S.watchers) :
                    S.watchers[s].prev = w /\ S.watchers[s].pc = "awaitPrev"}
    IN IF next = {} THEN S1 ELSE Enqueue(S1, "prevSettled", CHOOSE s \in next : TRUE)

\* The catch block without the test of this._watcher: every failing watcher
\* broadcasts what it caught.
failWatcher_Always(S, w, error) ==
    settleWatcher(rejectAllAwaiters(S, error), w, error)

\* The catch block of the watcher: the error is broadcast when the watcher
\* is still this._watcher, then the watcher's promise is rejected.
failWatcher(S, w, error) ==
    settleWatcher(IF S.watcher = w THEN rejectAllAwaiters(S, error) ELSE S, w, error)

\* ------------------------------------------------------------------------
\* The token bucket.
\* _getConsumableTokens: _restoreContinuousTokens (rate 0) adds nothing.
getConsumableTokens(S) == S.tokenContent

\* _addTokensToBucket: add, then clamp to _maxTokens.
addTokensToBucket_NoClamp(S, tokenCount) == [S EXCEPT !.tokenContent = @ + tokenCount]

addTokensToBucket(S, tokenCount) ==
    [S EXCEPT !.tokenContent =
        IF @ + tokenCount > MaxTokens THEN MaxTokens ELSE @ + tokenCount]

insertListener_Append(ls, l) == Append(ls, l)

\* this._tokenListeners.insert(count, resolve): the tree is ordered by count.
insertListener(ls, l) ==
    LET before == {i \in 1..Len(ls) : ls[i].count < l.count}
        n == Cardinality(before)
    IN SubSeq(ls, 1, n) \o <<l>> \o SubSeq(ls, n + 1, Len(ls))

\* The loop of _checkListeners: from the smallest demand on, every listener
\* whose demand is covered is resolved (its call resumes in a job) and removed.
RECURSIVE resolveListeners(_, _)
resolveListeners(S, consumableTokens) ==
    IF S.tokenListeners # <<>> /\ Head(S.tokenListeners).count <= consumableTokens
    THEN LET l == Head(S.tokenListeners)
             S1 == [S EXCEPT !.tokenListeners = Tail(@),
                             !.watchers[l.w].callState = "woken"]
         IN resolveListeners(Enqueue(S1, "bucketResume", l.w), consumableTokens)
    ELSE S

\* _checkListeners; the _scheduleCheckListeners that ends it arms nothing at
\* rate 0 (the wait time is Infinity or NaN).
checkListeners(S) ==
    IF Len(S.tokenListeners) > 0
    THEN resolveListeners(S, getConsumableTokens(S))
    ELSE S

\* The promise of the bucket.consumeTokensAsync call of watcher w settles:
\* the reaction of the race on it, or the await in the catch block, is queued.
settleConsume(S, w, result) ==
    LET S1 == [S EXCEPT !.watchers[w].consumePromise = result,
                        !.watchers[w].callState = "settled"]
    IN IF S.watchers[w].pc = "consume" /\ ~IsSettled(S.watchers[w].race)
       THEN Enqueue([S1 EXCEPT !.watchers[w].race = result], "raceReact", w)
       ELSE IF S.watchers[w].pc = "awaitConsume"
            THEN Enqueue(S1, "consumeAwait", w)
            ELSE S1

\* One round of the loop of bucket.consumeTokensAsync(count), for the call of
\* watcher w: consumeTokens(count) throws on a negative count and deducts
\* when count is consumable; otherwise onceTokensAvailable(count) throws when
\* count exceeds _maxTokens, or registers a listener and checks the listeners.
bucketTry(S, w) ==
    LET a == S.watchers[w].awaiter.id
        count == S.watchers[w].awaiter.tokenCount
    IN IF count < 0
       THEN settleConsume(S, w, Error(a))
       ELSE IF count <= getConsumableTokens(S)
            THEN settleConsume([S EXCEPT !.tokenContent = @ - count,
                                         !.requests[a].paid = @ + 1], w, Fulfilled)
            ELSE IF count > MaxTokens
                 THEN settleConsume(S, w, Error(a))
                 ELSE checkListeners(
                        [S EXCEPT !.tokenListeners =
                                      insertListener(@, [count |-> count, w |-> w]),
                                  !.watchers[w].callState = "waiting"])

\* A cancel that sets shouldCancel and leaves the registered listener alone.
cancelConsume_FlagOnly(S, w) == [S EXCEPT !.watchers[w].shouldCancel = TRUE]

\* cancel of bucket.consumeTokensAsync: shouldCancel = true and cancelWait?.():
\* a registered listener is removed and its promise rejected; a listener
\* already resolved is not found, and nothing else happens.
cancelConsume(S, w) ==
    LET S1 == [S EXCEPT !.watchers[w].shouldCancel = TRUE]
    IN IF S.watchers[w].callState = "waiting"
       THEN Enqueue([S1 EXCEPT !.tokenListeners = SelectSeq(@, LAMBDA l : l.w # w),
                               !.watchers[w].callState = "canceled"],
                    "bucketResume", w)
       ELSE S1

\* The watcher reads the head of the highest-priority group; without one it
\* completes, with one it calls the bucket and races the call against its
\* cancellation, the call first.
selectStep(S, w) ==
    LET a == FirstHighestPriorityAwaiter(S.awaiters)
    IN IF a = NoAwaiter
       THEN settleWatcher(S, w, Fulfilled)
       ELSE LET S1 == bucketTry([S EXCEPT !.watchers[w].awaiter = a,
                                          !.watchers[w].priority = EndKey(S.awaiters)], w)
                S2 == [S1 EXCEPT !.watchers[w].pc = "consume"]
                cp == S1.watchers[w].consumePromise
            IN IF IsSettled(cp)
               THEN Enqueue([S2 EXCEPT !.watchers[w].race = cp], "raceReact", w)
               ELSE IF S1.watchers[w].isCanceled
                    THEN Enqueue([S2 EXCEPT !.watchers[w].race = CanceledError],
                                 "raceReact", w)
                    ELSE [S2 EXCEPT !.watchers[w].race = Pending]

\* The consumption succeeded: the awaiter leaves the queue and is resolved,
\* the next watcher is created, and this watcher's promise is resolved.
serveAwaiter(S, w) ==
    LET a == S.watchers[w].awaiter
        S1 == [S EXCEPT !.awaiters = removeFirstAwaiter(@, S.watchers[w].priority, a),
                        !.lastConsumed = S.now,
                        !.lastResolved = IF IsSettled(S.requests[a.id].promise)
                                         THEN @
                                         ELSE [id |-> a.id, at |-> S.now,
                                               priority |-> S.watchers[w].priority]]
    IN settleWatcher(recreateWatcher(resolveAwaiter(S1, a.id)), w, Fulfilled)

\* The race of the consumption was lost: a canceled watcher that caught the
\* CanceledError cancels the call and awaits it before it rethrows.
catchConsume(S, w) ==
    LET error == S.watchers[w].race
    IN IF S.watchers[w].isCanceled /\ error = CanceledError
       THEN LET S1 == cancelConsume(S, w)
                S2 == [S1 EXCEPT !.watchers[w].pc = "awaitConsume"]
            IN IF IsSettled(S1.watchers[w].consumePromise)
               THEN Enqueue(S2, "consumeAwait", w)
               ELSE S2
       ELSE failWatcher(S, w, error)

\* The bucket behind the limiter is a plain TokenBucket with the periodic
\* restorer alone, used through consumeTokensAsync only: the state that only
\* the other bucket operations touch stays as constructed.
NoOutcome == [op |-> "none", count |-> 0, result |-> "none"]

BucketOfLimiter ==
    /\ rolling = FALSE
    /\ history = <<>>
    /\ continuousTokenRestorers = {}
    /\ discreteTokenRestorers = {"periodic"}
    /\ continuousRestoreRatePerMs = 0
    /\ continuousRestoreLastTimestamp = 0
    /\ checkListenersHandle = 0
    /\ cleanUpHandle = 0
    /\ calls = <<>>
    /\ outcome = NoOutcome
    /\ spent = <<>>

\* ------------------------------------------------------------------------
\* State after construction: new TokenBucket({initialTokens, maxTokens}) with
\* a PeriodicTokenRestorer added, new PrioritizedFifoRateLimiter({tokenBucket,
\* minStaggerTime}).
Init ==
    /\ now = 0
    /\ tokenContent = IF InitialTokens < MaxTokens THEN InitialTokens ELSE MaxTokens
    /\ tokenListeners = <<>>
    /\ awaiters = EmptyTree
    /\ requests = <<>>
    /\ watchers = <<>>
    /\ watcher = 0
    /\ lastConsumed = NEGATIVE_INFINITY
    /\ lastResolved = [id |-> 0, at |-> NEGATIVE_INFINITY, priority |-> 0]
    /\ microtasks = <<>>
    /\ timers = {}
    /\ BucketOfLimiter
    /\ NoSharedRestorers

\* Requests whose tokens were deducted and whose promise is not settled.
PaidUnsettled ==
    {b \in 1..Len(requests) : requests[b].paid > 0 /\ ~IsSettled(requests[b].promise)}

\* limiter.consumeTokensAsync(tokenCount, priority)
Submit(tokenCount, priority) ==
    /\ Len(requests) < MaxRequests
    /\ LET a == Len(requests) + 1
           S1 == [Cur EXCEPT !.requests = Append(@, NewRequest(PaidUnsettled)),
                             !.awaiters = addAwaiter(@, priority, Awaiter(a, tokenCount))]
       IN Commit(recreateWatcher(S1))
    /\ UNCHANGED now

\* The cancel callback of request a; it does nothing unless a is queued.
Cancel(a) ==
    /\ a \in Queued(awaiters)
    /\ LET priority == PriorityOf(awaiters, a)
           this == AwaiterOf(awaiters, a)
       IN /\ removeFirstAwaiterSucceeds(awaiters, priority, this)
          /\ LET S1 == [Cur EXCEPT !.awaiters = removeFirstAwaiter(@, priority, this)]
             IN Commit(rejectAwaiter(recreateWatcher(S1), a, CanceledError))
    /\ UNCHANGED now

\* The jobs of the promise job queue, run in order.
NextJob(kind) == microtasks # <<>> /\ Head(microtasks).kind = kind
Popped == [Cur EXCEPT !.microtasks = Tail(@)]

\* Continuation of "await prevWatcher.promise": a CanceledError is swallowed,
\* any other error is rethrown into the watcher's catch block.
PrevSettled ==
    /\ NextJob("prevSettled")
    /\ LET w == Head(microtasks).w
           prev == watchers[w].prev
           result == watchers[prev].promise
           S1 == [Popped EXCEPT !.watchers[prev] = Collected]
       IN IF result.kind = "Error"
          THEN Commit(failWatcher(S1, w, result))
          ELSE Commit(staggerStep(S1, w))
    /\ UNCHANGED now

\* Reaction of Promise.race on its first settled input: the race settles and
\* the await on it is queued.
RaceReact ==
    /\ NextJob("raceReact")
    /\ Commit(Enqueue(Popped, "raceAwait", Head(microtasks).w))
    /\ UNCHANGED now

\* Continuation of the await on the stagger race.
StaggerDone ==
    /\ NextJob("raceAwait")
    /\ LET w == Head(microtasks).w
       IN /\ watchers[w].pc = "stagger"
          /\ IF IsRejected(watchers[w].race)
             THEN Commit(failWatcher(Popped, w, watchers[w].race))
             ELSE Commit(selectStep(Popped, w))
    /\ UNCHANGED now

\* Continuation of the await on the consumption race.
ConsumeDone ==
    /\ NextJob("raceAwait")
    /\ LET w == Head(microtasks).w
       IN /\ watchers[w].pc = "consume"
          /\ IF IsRejected(watchers[w].race)
             THEN Commit(catchConsume(Popped, w))
             ELSE Commit(serveAwaiter(Popped, w))
    /\ UNCHANGED now

\* Continuation of "await promise" in bucket.consumeTokensAsync: a rejected
\* wait or shouldCancel throws CanceledError, otherwise the loop goes on.
BucketResume ==
    /\ NextJob("bucketResume")
    /\ LET w == Head(microtasks).w
       IN IF watchers[w].callState = "canceled" \/ watchers[w].shouldCancel
          THEN Commit(settleConsume(Popped, w, CanceledError))
          ELSE Commit(bucketTry(Popped, w))
    /\ UNCHANGED now

\* Continuation of "await consumePromise" in the catch block: the rejection
\* of the call is thrown, or after a fulfilled call the error caught.
ConsumeAwait ==
    /\ NextJob("consumeAwait")
    /\ LET w == Head(microtasks).w
           cp == watchers[w].consumePromise
       IN Commit(failWatcher(Popped, w, IF IsRejected(cp) THEN cp ELSE watchers[w].race))
    /\ UNCHANGED now

\* A tick of the periodic restorer: the bucket's subscriber adds the tokens
\* and checks the listeners.
RestoreTick ==
    /\ microtasks = <<>>
    /\ Commit(checkListeners(addTokensToBucket(Cur, RestoreAmount)))
    /\ UNCHANGED now

\* The timeout of a stagger delay fires, not before its deadline: the delay
\* promise is resolved, which settles the race unless it is settled already.
FireTimer ==
    /\ microtasks = <<>>
    /\ \E t \in timers :
        /\ t.deadline <= now
        /\ LET S1 == [Cur EXCEPT !.timers = @ \ {t}]
           IN IF watchers[t.w].pc = "stagger" /\ ~IsSettled(watchers[t.w].race)
              THEN Commit(Enqueue([S1 EXCEPT !.watchers[t.w].race = Fulfilled],
                                  "raceReact", t.w))
              ELSE Commit(S1)
    /\ UNCHANGED now

\* The clock advances.  The limiter reads the clock only in the difference
\* _lastConsumed + _minStaggerTime - performance.now(), and the timeouts are
\* relative: until the first consumption sets _lastConsumed, nothing depends
\* on the time that passes, and the clock of the model starts there.
Tick ==
    /\ microtasks = <<>>
    /\ now < MaxTime
    /\ lastConsumed # NEGATIVE_INFINITY
    /\ now' = now + 1
    /\ UNCHANGED <<tokenContent, tokenListeners, awaiters, requests, watchers,
                   watcher, lastConsumed, lastResolved, microtasks, timers>>
    /\ UNCHANGED bucketVars
    /\ UNCHANGED restorerVars

SubmitAny == \E tokenCount \in TokenCounts, priority \in Priorities : Submit(tokenCount, priority)
CancelAny == \E a \in 1..MaxRequests : Cancel(a)

Next ==
    \/ SubmitAny
    \/ CancelAny
    \/ PrevSettled
    \/ RaceReact
    \/ StaggerDone
    \/ ConsumeDone
    \/ BucketResume
    \/ ConsumeAwait
    \/ RestoreTick
    \/ FireTimer
    \/ Tick

Spec == Init /\ [][Next]_vars

\* ------------------------------------------------------------------------
\* Vocabulary of the claims.
Requests == 1..Len(requests)
Watchers == 1..Len(watchers)
Quiescent == microtasks = <<>>
IsPending(a) == requests[a].promise = Pending
ResolvedInStep(a) == requests[a].promise = Pending /\ requests'[a].promise = Fulfilled

\* The watcher's bucket call for request a has deducted the tokens, and the
\* watcher has not yet resumed to take a out of the queue.
ConsumedNotYetServed(a) ==
    /\ a \in Queued(awaiters)
    /\ \E w \in Watchers :
        /\ watchers[w].pc = "consume"
        /\ watchers[w].awaiter.id = a
        /\ watchers[w].consumePromise = Fulfilled

\* The queue without the entry of request a: the groups keep their order,
\* and a group left empty is gone.
WithoutAwaiter(aw, a) ==
    LET f == [k \in DOMAIN aw |-> SelectSeq(aw[k], LAMBDA x : x.id # a)]
    IN [k \in {j \in DOMAIN aw : f[j] # <<>>} |-> f[k]]

\* C1: once no job is left to run, every request on whose behalf the bucket
\* deducted tokens was charged once and is resolved: no tokens are spent for
\* a request that stays queued, and none twice.  (A request its own caller
\* cancelled is the case of C2 and is left out here.)
C1_SpentTokensAreResolved ==
    Quiescent =>
        \A a \in Requests :
            requests[a].paid > 0 =>
                \/ requests[a].promise = CanceledError
                \/ requests[a].paid = 1 /\ requests[a].promise = Fulfilled

\* C2: the cancel callback of a request whose tokens the bucket has already
\* deducted, and which the watcher has not yet taken out of the queue, does
\* not reject the request with CanceledError.
C2_CancelAfterConsumptionResolves ==
    [][\A a \in Requests :
          ConsumedNotYetServed(a) /\ IsPending(a)
              => requests'[a].promise # CanceledError]_vars

\* The step is the cancel callback of request a.  A cancel that finds its
\* awaiter always creates a watcher and no request, which is tested first:
\* the other steps are told apart without computing the callback's outcome.
CancelStep(a) ==
    /\ Len(watchers') = Len(watchers) + 1
    /\ Len(requests') = Len(requests)
    /\ Cancel(a)

\* C3: the cancel callback of a queued request for which no tokens were
\* consumed rejects it with CanceledError, leaves tokenContent (and the
\* bucket's listeners) unchanged and takes exactly that request's entry out
\* of the queue; the other entries keep their groups and their order, and no
\* other request is settled.
C3_CancelRemovesOnlyItsEntry ==
    [][\A a \in Requests :
          CancelStep(a) /\ requests[a].paid = 0
              => /\ requests'[a].promise = CanceledError
                 /\ tokenContent' = tokenContent
                 /\ tokenListeners' = tokenListeners
                 /\ awaiters' = WithoutAwaiter(awaiters, a)
                 /\ \A b \in Requests \ {a} :
                        requests'[b].promise = requests[b].promise]_vars

\* Witness of C3: request 2 was cancelled before any token was consumed for
\* it, and request 1, submitted with the same priority, is still queued.
C3_Witness ==
    /\ Len(requests) = 2
    /\ requests[2].promise = CanceledError
    /\ requests[2].paid = 0
    /\ requests[1].promise = Pending
    /\ 1 \in Queued(awaiters)

\* The priority of the group request a is queued in, and the requests queued
\* with a strictly higher priority.
HigherPriorityQueued(a) ==
    {h \in Queued(awaiters) : PriorityOf(awaiters, h) > PriorityOf(awaiters, a)}

C5_FifoWithinPriority ==
    [][\A a \in Requests :
          ResolvedInStep(a) /\ a \in Queued(awaiters)
              => \A b \in GroupIds(awaiters, PriorityOf(awaiters, a)) : a <= b]_vars

\* Witness of C5: request 1 was resolved and request 2, of the same priority,
\* is still queued behind it.
C5_Witness ==
    /\ Len(requests) = 2
    /\ requests[1].promise = Fulfilled
    /\ lastResolved.id = 1
    /\ lastResolved.priority \in DOMAIN awaiters
    /\ 2 \in GroupIds(awaiters, lastResolved.priority)

\* C6: a resolution is at least MinStaggerTime later, on the limiter's clock,
\* than the resolution before it.
C6_ResolutionsAreStaggered ==
    [][\A a \in Requests :
          ResolvedInStep(a)
              => \/ lastResolved.id = 0
                 \/ now >= lastResolved.at + MinStaggerTime]_vars

\* Witness of C6: two requests were resolved, the second one after the first.
C6_Witness ==
    /\ Len(requests) = 2
    /\ requests[1].promise = Fulfilled
    /\ requests[2].promise = Fulfilled
    /\ requests[1].settles = 1
    /\ lastResolved.id = 2
    /\ lastResolved.at >= MinStaggerTime

\* The watchers whose bucket.consumeTokensAsync call is unsettled, and the
\* watchers past their await of the predecessor.
UnsettledCalls == {w \in Watchers : watchers[w].callState \in {"waiting", "woken", "canceled"}}
AtWork == {w \in Watchers : watchers[w].pc \in {"stagger", "consume", "awaitConsume"}}

\* C7: a watcher does not wait out the stagger, read the queue or call the
\* bucket before every watcher created before it has settled its promise,
\* and at most one bucket.consumeTokensAsync call is unsettled at a time.
C7_OneServiceAttemptAtATime ==
    /\ Cardinality(UnsettledCalls) <= 1
    /\ Cardinality(AtWork) <= 1
    /\ \A w \in AtWork :
        \A v \in 1..(w - 1) :
            /\ watchers[v].pc \in {"done", "collected"}
            /\ watchers[v].callState = "none"

\* Witness of C7: a superseding watcher awaits its predecessor, whose bucket
\* call is still unsettled.
C7_Witness ==
    \E w \in Watchers :
        /\ watchers[w].pc = "awaitPrev"
        /\ watchers[w].prev \in UnsettledCalls

\* C8: a request submitted after an Error was broadcast is not rejected with
\* that Error: the requests an Error rejects were all made by the time it
\* was first broadcast.
C8_LaterCallsStartAFreshChain ==
    \A a \in Requests :
        requests[a].promise.kind = "Error"
            => a <= requests[requests[a].promise.src].broadcastAt

\* C9: in the step in which the current watcher fails with an Error, every
\* queued awaiter is rejected with that Error, by the one call of its reject
\* ever made, and the queue is left empty; a watcher that fails with an Error
\* after it was superseded has a successor awaiting its promise, and the
\* successor that reads an Error from its predecessor fails with it too.
FailsInStep(w) ==
    /\ watchers[w].pc \notin {"done", "collected"}
    /\ watchers'[w].pc = "done"
    /\ watchers'[w].promise.kind = "Error"

\* The step resumes watcher w from its await of a predecessor whose promise
\* is rejected with an Error.
ReadsErrorOfPredecessor(w) ==
    /\ watchers[w].pc = "awaitPrev"
    /\ watchers'[w].pc # "awaitPrev"
    /\ watchers[watchers[w].prev].promise.kind = "Error"

C9_FailureIsBroadcastOnce ==
    [][\A w \in Watchers :
          /\ FailsInStep(w) /\ watcher = w
                => /\ awaiters' = EmptyTree
                   /\ \A a \in Queued(awaiters) :
                        /\ requests'[a].promise = watchers'[w].promise
                        /\ requests'[a].settles = 1
          /\ FailsInStep(w) /\ watcher # w
                => /\ awaiters' = awaiters
                   /\ \E s \in Watchers :
                        /\ watchers'[s].prev = w
                        /\ watchers'[s].pc = "awaitPrev"
                        /\ Job("prevSettled", s) \in
                              {microtasks'[i] : i \in 1..Len(microtasks')}
          /\ ReadsErrorOfPredecessor(w)
                => /\ FailsInStep(w)
                   /\ watchers'[w].promise = watchers[watchers[w].prev].promise]_vars

\* Witness of C9: two requests were queued when the Error thrown for the
\* first one was broadcast, and both are rejected with it.
C9_Witness ==
    /\ Len(requests) = 2
    /\ requests[1].broadcastAt = 2
    /\ requests[1].promise = Error(1)
    /\ requests[2].promise = Error(1)
    /\ awaiters = EmptyTree

\* C10: the Error thrown for a request's token count rejects that request
\* only.
C10_InvalidCountFailsLocally ==
    \A a \in Requests :
        requests[a].promise.kind = "Error" => requests[a].promise.src = a

\* Watcher w ends in the step, its promise rejected with CanceledError.
EndsCanceledInStep(w) ==
    /\ watchers[w].pc \notin {"done", "collected"}
    /\ watchers'[w].pc = "done"
    /\ watchers'[w].promise = CanceledError

\* C11: a request is rejected with CanceledError only in the step of its own
\* cancel callback; a request rejected in any other step is rejected with the
\* Error a watcher fails with in that step, and a watcher that ends with the
\* CanceledError of its supersession rejects nobody.
C11_CanceledOnlyByOwnCancel ==
    [][/\ \A a \in Requests :
            IsPending(a) /\ IsRejected(requests'[a].promise)
                => IF requests'[a].promise = CanceledError
                   THEN CancelStep(a)
                   ELSE \E w \in Watchers :
                            /\ FailsInStep(w)
                            /\ watchers'[w].promise = requests'[a].promise
       /\ \A w \in Watchers :
            EndsCanceledInStep(w)
                => /\ watcher # w
                   /\ awaiters' = awaiters
                   /\ requests' = requests]_vars

\* Witness of C11: a superseded watcher has ended with CanceledError while a
\* request nobody cancelled is still queued and pending.
C11_Witness ==
    /\ \E w \in Watchers : watchers[w].pc = "done" /\ watchers[w].promise = CanceledError
    /\ \E a \in Requests : a \in Queued(awaiters) /\ IsPending(a)
    /\ \A a \in Requests : requests[a].promise # CanceledError

\* ========================================================================
\* The bucket on its own: a TokenBucket or a RollingWindowTokenBucket with at
\* most one ContinuousTokenRestorer and one PeriodicTokenRestorer, used
\* through consumeTokens, onceTokensAvailable and consumeTokensAsync, and by
\* limiter.restoreTokens.  The clock counts readings of performance.now() that
\* differ: everything a synchronous run reads is one value of now, except
\* where the code calls itself until the clock has moved on.

\* Bounds of the bucket's specification.
MaxCalls == 2
MaxWaiters == 1
MaxBucketTime == 2
MaxWaitTime == 1

\* Options of the bucket and of its restorers.
HistoryIntervalMs == 1
MaxHistoryTokens == 1
ContinuousAmountPerMs == 1
CleanUpExtraMs == 1

\* Inputs: the counts passed to the bucket's operations.
BucketCounts == {-1, 1, 2, MaxTokens + 1}
WaitCounts == {1, 2, MaxTokens + 1}
AsyncCounts == {1, 2}

\* The state one synchronous run of the bucket works on.
BCur ==
    [now |-> now, tokenContent |-> tokenContent, tokenListeners |-> tokenListeners,
     microtasks |-> microtasks, rolling |-> rolling, history |-> history,
     continuousTokenRestorers |-> continuousTokenRestorers,
     discreteTokenRestorers |-> discreteTokenRestorers,
     continuousRestoreRatePerMs |-> continuousRestoreRatePerMs,
     continuousRestoreLastTimestamp |-> continuousRestoreLastTimestamp,
     checkListenersHandle |-> checkListenersHandle, cleanUpHandle |-> cleanUpHandle,
     calls |-> calls, outcome |-> outcome, spent |-> spent]

\* The consumptions that still lie in the window [t - HistoryIntervalMs, t].
InWindow(log, t) == SelectSeq(log, LAMBDA e : e.at >= t - HistoryIntervalMs)

RECURSIVE SumOf(_)
SumOf(log) == IF log = <<>> THEN 0 ELSE Head(log).count + SumOf(Tail(log))

\* What is kept of a call one step after its promise settled: the caller has
\* seen the result, and the bucket holds nothing of the call any more.
Forgotten ==
    [op |-> "none", count |-> 0, promise |-> Pending, state |-> "settled",
     shouldCancel |-> FALSE, deducted |-> 0, cancelInvoked |-> FALSE]

forgetSettled(after, before) ==
    [c \in DOMAIN after |->
        IF c \in DOMAIN before /\ before[c].state = "settled" THEN Forgotten ELSE after[c]]

BCommit(B) ==
    /\ B.now <= MaxBucketTime
    /\ now' = B.now
    /\ tokenContent' = B.tokenContent
    /\ tokenListeners' = B.tokenListeners
    /\ microtasks' = B.microtasks
    /\ rolling' = B.rolling
    /\ history' = B.history
    /\ continuousTokenRestorers' = B.continuousTokenRestorers
    /\ discreteTokenRestorers' = B.discreteTokenRestorers
    /\ continuousRestoreRatePerMs' = B.continuousRestoreRatePerMs
    /\ continuousRestoreLastTimestamp' = B.continuousRestoreLastTimestamp
    /\ checkListenersHandle' = B.checkListenersHandle
    /\ cleanUpHandle' = B.cleanUpHandle
    /\ calls' = forgetSettled(B.calls, calls)
    /\ outcome' = B.outcome
    /\ spent' = InWindow(B.spent, B.now)
    /\ UNCHANGED limiterVars
    /\ UNCHANGED restorerVars

\* r.rate.amount / r.rate.intervalMs of the continuous restorer objects.
RatePerMs(r) ==
    IF r = "continuous2" THEN 2 * ContinuousAmountPerMs ELSE ContinuousAmountPerMs

\* ContinuousTokenRestorer.computeAggregateRatePerMs: the sum of the rates
\* of the restorers of the collection.
RECURSIVE computeAggregateRatePerMs(_)
computeAggregateRatePerMs(restorers) ==
    IF restorers = {}
    THEN 0
    ELSE LET r == CHOOSE x \in restorers : TRUE
         IN RatePerMs(r) + computeAggregateRatePerMs(restorers \ {r})

\* _restoreContinuousTokens that leaves the timestamp of the fold as it was.
restoreContinuousTokens_KeepsTimestamp(B) ==
    LET tokenCount == B.continuousRestoreRatePerMs
                        * (B.now - B.continuousRestoreLastTimestamp)
    IN addTokensToBucket(B, tokenCount)

\* _restoreContinuousTokens: the accrual since the last fold is added (and
\* clamped), and the fold's timestamp is set.
restoreContinuousTokens(B) ==
    LET tokenCount == B.continuousRestoreRatePerMs
                        * (B.now - B.continuousRestoreLastTimestamp)
    IN [addTokensToBucket(B, tokenCount) EXCEPT !.continuousRestoreLastTimestamp = B.now]

RECURSIVE cleanupHistoricTokens_Inclusive(_)
cleanupHistoricTokens_Inclusive(B) ==
    IF B.history # <<>> /\ Head(B.history).at <= B.now - HistoryIntervalMs
    THEN cleanupHistoricTokens_Inclusive([B EXCEPT !.history = Tail(@)])
    ELSE B

\* _cleanupHistoricTokens: from the oldest on, the entries older than
\* now - historyIntervalMs are removed.
RECURSIVE cleanupHistoricTokens(_)
cleanupHistoricTokens(B) ==
    IF B.history # <<>> /\ Head(B.history).at < B.now - HistoryIntervalMs
    THEN cleanupHistoricTokens([B EXCEPT !.history = Tail(@)])
    ELSE B

\* _countAndCleanupHistoricTokens: the total it returns.
countHistoricTokens(B) == SumOf(cleanupHistoricTokens(B).history)

\* _getConsumableTokens of the bucket's class: the state it leaves (history
\* cleaned up first, then the accrual folded) and the number it returns.
afterGetConsumableTokens(B) ==
    IF B.rolling
    THEN restoreContinuousTokens(cleanupHistoricTokens(B))
    ELSE restoreContinuousTokens(B)

consumableTokens_Raw(B) == restoreContinuousTokens(B).tokenContent

consumableTokens(B) ==
    LET raw == restoreContinuousTokens(B).tokenContent
        budget == MaxHistoryTokens - countHistoricTokens(B)
    IN IF B.rolling /\ budget < raw THEN budget ELSE raw

\* Wait times: a number of milliseconds, Infinity or NaN.
Finite(ms) == [kind |-> "finite", ms |-> ms]
PositiveInfinity == [kind |-> "Infinity", ms |-> 0]
NaN == [kind |-> "NaN", ms |-> 0]

\* Math.min of two wait times, neither of which is NaN.
MinWaitTime(x, y) ==
    IF x.kind = "Infinity" THEN y
    ELSE IF y.kind = "Infinity" THEN x
    ELSE IF x.ms <= y.ms THEN x ELSE y

\* The timeout of a wait time that is no whole number of clock readings
\* cannot fire before the next reading.
CeilDiv(n, d) == (n + d - 1) \div d

\* A wait time that polls again after a millisecond when nothing accrues.
TokenBucket_getWaitTimeForRecheck_PollsAtRateZero(B) ==
    LET minTokenCount == Head(B.tokenListeners).count
        content == restoreContinuousTokens(B).tokenContent
        missingTokenCount == IF minTokenCount - content > 0 THEN minTokenCount - content ELSE 0
        rate == B.continuousRestoreRatePerMs
    IN IF rate = 0
       THEN Finite(1)
       ELSE Finite(CeilDiv(missingTokenCount, rate))

\* TokenBucket._getWaitTimeForRecheck: what it returns (the accrual is folded
\* first); it is called with a listener registered.
TokenBucket_getWaitTimeForRecheck(B) ==
    LET minTokenCount == Head(B.tokenListeners).count
        content == restoreContinuousTokens(B).tokenContent
        missingTokenCount == IF minTokenCount - content > 0 THEN minTokenCount - content ELSE 0
        rate == B.continuousRestoreRatePerMs
    IN IF rate = 0
       THEN IF missingTokenCount = 0 THEN NaN ELSE PositiveInfinity
       ELSE Finite(CeilDiv(missingTokenCount, rate))

\* RollingWindowTokenBucket._getWaitTimeForRecheck: what it returns.
RollingWindow_getWaitTimeForRecheck(B) ==
    LET restoreWaitTime == TokenBucket_getWaitTimeForRecheck(B)
        B1 == cleanupHistoricTokens(B)
        spentTokens == SumOf(B1.history)
        until == IF B1.history = <<>> THEN 0
                 ELSE Head(B1.history).at + HistoryIntervalMs - B.now
        expireWaitTime == IF B1.history = <<>> THEN PositiveInfinity
                          ELSE Finite(IF until > 0 THEN until ELSE 0)
    IN IF restoreWaitTime = Finite(0)
       THEN IF Head(B.tokenListeners).count <= MaxHistoryTokens - spentTokens
            THEN Finite(0)
            ELSE expireWaitTime
       ELSE IF restoreWaitTime = NaN
            THEN NaN
            ELSE MinWaitTime(restoreWaitTime, expireWaitTime)

getWaitTimeForRecheck(B) ==
    IF B.rolling
    THEN RollingWindow_getWaitTimeForRecheck(B)
    ELSE TokenBucket_getWaitTimeForRecheck(B)

\* A pass that resolves the first covered listener and stops.
resolveTokenListeners_OnlyFirst(B, consumable) ==
    IF B.tokenListeners # <<>> /\ Head(B.tokenListeners).count <= consumable
    THEN LET c == Head(B.tokenListeners).id
             B1 == [B EXCEPT !.tokenListeners = Tail(@)]
         IN IF B.calls[c].op = "once"
            THEN [B1 EXCEPT !.calls[c].state = "settled",
                            !.calls[c].promise = Fulfilled]
            ELSE Enqueue([B1 EXCEPT !.calls[c].state = "woken"], "resume", c)
    ELSE B

\* The loop of _checkListeners on the bucket's own calls: the promise of an
\* onceTokensAvailable call is resolved; a consumeTokensAsync call awaits that
\* promise and resumes in a job.
RECURSIVE resolveTokenListeners(_, _)
resolveTokenListeners(B, consumable) ==
    IF B.tokenListeners # <<>> /\ Head(B.tokenListeners).count <= consumable
    THEN LET c == Head(B.tokenListeners).id
             B1 == [B EXCEPT !.tokenListeners = Tail(@)]
         IN IF B.calls[c].op = "once"
            THEN resolveTokenListeners(
                    [B1 EXCEPT !.calls[c].state = "settled",
                               !.calls[c].promise = Fulfilled], consumable)
            ELSE resolveTokenListeners(
                    Enqueue([B1 EXCEPT !.calls[c].state = "woken"], "resume", c),
                    consumable)
    ELSE B

\* _scheduleCheckListeners and _checkListeners call each other.  A wait time
\* of 0 with no listener that can be resolved (the oldest entry of the
\* history expires at this very reading of the clock, and is not yet older
\* than the window) makes them call each other with nothing changed, until
\* performance.now() returns the next value.
clockMovesOn(B) == [B EXCEPT !.now = @ + 1]

RECURSIVE TokenBucket_scheduleCheckListeners(_)
RECURSIVE TokenBucket_checkListeners(_)
TokenBucket_scheduleCheckListeners(B) ==
    LET B0 == [B EXCEPT !.checkListenersHandle = 0]
    IN IF Len(B0.tokenListeners) > 0
       THEN LET waitTime == getWaitTimeForRecheck(B0)
                B1 == afterGetConsumableTokens(B0)
            IN IF waitTime.kind = "finite"
               THEN IF waitTime.ms <= 0
                    THEN IF Head(B1.tokenListeners).count <= consumableTokens(B1)
                         THEN TokenBucket_checkListeners(B1)
                         ELSE TokenBucket_checkListeners(clockMovesOn(B1))
                    ELSE [B1 EXCEPT !.checkListenersHandle = B1.now + waitTime.ms]
               ELSE B1
       ELSE B0

TokenBucket_checkListeners(B) ==
    TokenBucket_scheduleCheckListeners(
        IF Len(B.tokenListeners) > 0
        THEN resolveTokenListeners(afterGetConsumableTokens(B), consumableTokens(B))
        ELSE B)

\* _scheduleCleanUpCall that leaves a timeout that is already armed alone.
scheduleCleanUpCall_KeepsFirst(B) ==
    IF B.cleanUpHandle # 0
    THEN B
    ELSE IF Len(B.history) > 0
         THEN [B EXCEPT !.cleanUpHandle = B.now + HistoryIntervalMs + CleanUpExtraMs]
         ELSE [B EXCEPT !.cleanUpHandle = 0]

\* _scheduleCleanUpCall
scheduleCleanUpCall(B) ==
    IF Len(B.history) > 0
    THEN [B EXCEPT !.cleanUpHandle = B.now + HistoryIntervalMs + CleanUpExtraMs]
    ELSE [B EXCEPT !.cleanUpHandle = 0]

\* this._history.insert(performance.now(), count): ordered by timestamp.
insertHistory(h, e) ==
    LET before == {i \in 1..Len(h) : h[i].at < e.at}
        n == Cardinality(before)
    IN SubSeq(h, 1, n) \o <<e>> \o SubSeq(h, n + 1, Len(h))

\* _onTokensConsumed of the bucket's class.
onTokensConsumed(B, count) ==
    IF B.rolling
    THEN TokenBucket_scheduleCheckListeners(
            scheduleCleanUpCall(
                [B EXCEPT !.history = insertHistory(@, [at |-> B.now, count |-> count])]))
    ELSE TokenBucket_scheduleCheckListeners(B)

\* consumeTokens(count): whether it throws, what it returns, and the state it
\* leaves; spent notes the consumption.
consumeTokensThrows_Never(count) == FALSE

consumeTokensThrows(count) == count < 0
consumeTokensReturns(B, count) == count <= consumableTokens(B)
consumeTokens_Strict(B, count) ==
    IF consumeTokensThrows(count)
    THEN B
    ELSE LET B1 == afterGetConsumableTokens(B)
         IN IF count < consumableTokens(B)
            THEN onTokensConsumed([B1 EXCEPT !.tokenContent = @ - count], count)
            ELSE B1

consumeTokens(B, count) ==
    IF consumeTokensThrows(count)
    THEN B
    ELSE LET B1 == afterGetConsumableTokens(B)
         IN IF count <= consumableTokens(B)
            THEN onTokensConsumed(
                    [B1 EXCEPT !.tokenContent = @ - count,
                               !.spent = IF B.rolling
                                         THEN Append(@, [at |-> B.now, count |-> count])
                                         ELSE @],
                    count)
            ELSE B1

\* ------------------------------------------------------------------------
\* The calls of onceTokensAvailable ("once") and consumeTokensAsync ("async").
\* state is "waiting" while the call's listener is registered, "woken" and
\* "canceled" while a consumeTokensAsync call is about to resume from an
\* await that was resolved or rejected, "settled" once the promise is
\* settled; deducted and cancelInvoked are history: the tokens consumed on the
\* call's behalf, and whether its cancel callback was invoked before its
\* promise settled.
NewCall(op, count) ==
    [op |-> op, count |-> count, promise |-> Pending, state |-> "waiting",
     shouldCancel |-> FALSE, deducted |-> 0, cancelInvoked |-> FALSE]

Calls == 1..Len(calls)

\* onceTokensAvailable(count) as call c: whether it throws, and the state it
\* leaves when it does not (the listener is inserted, then _checkListeners).
onceTokensAvailableThrows(count) == count > MaxTokens
onceTokensAvailable(B, c, count) ==
    TokenBucket_checkListeners(
        [B EXCEPT !.tokenListeners = insertListener(@, [count |-> count, id |-> c])])

\* The promise of call c settles.
settleCall(B, c, result) ==
    [B EXCEPT !.calls[c].promise = result, !.calls[c].state = "settled"]

\* One round of the loop of consumeTokensAsync(count), call c.
consumeTokensAsyncRound(B, c) ==
    LET count == B.calls[c].count
    IN IF consumeTokensThrows(count)
       THEN settleCall(B, c, Error(c))
       ELSE IF consumeTokensReturns(B, count)
            THEN settleCall([consumeTokens(B, count) EXCEPT !.calls[c].deducted = @ + count],
                            c, Fulfilled)
            ELSE IF onceTokensAvailableThrows(count)
                 THEN settleCall(consumeTokens(B, count), c, Error(c))
                 ELSE onceTokensAvailable(
                        [consumeTokens(B, count) EXCEPT !.calls[c].state = "waiting"],
                        c, count)

\* this._tokenListeners.find(count): an iterator at the node with that key
\* which the descent from the root meets first.  Which of several listeners
\* of the same count that is depends on the shape of the tree, which is not
\* kept here: it can be any of them.  0: there is none.
FindStarts(ls, count) ==
    IF \E i \in 1..Len(ls) : ls[i].count = count
    THEN {i \in 1..Len(ls) : ls[i].count = count}
    ELSE {0}

\* The loop of the cancel callback of onceTokensAvailable: from the iterator on,
\* while the key is count, the node whose value is the call's resolve.
FoundFrom(ls, start, c) ==
    /\ start # 0
    /\ \E i \in start..Len(ls) : ls[i].id = c

\* A cancel callback that does not reschedule the recheck.
cancelWait_WithoutReschedule(B, c, start) ==
    IF FoundFrom(B.tokenListeners, start, c)
    THEN LET B1 == [B EXCEPT !.tokenListeners = SelectSeq(@, LAMBDA l : l.id # c)]
         IN IF B.calls[c].op = "once"
            THEN settleCall(B1, c, CanceledError)
            ELSE Enqueue([B1 EXCEPT !.calls[c].state = "canceled"], "resume", c)
    ELSE B

\* The cancel callback of onceTokensAvailable for call c, the iterator starting
\* at start: the listener found is removed, the recheck is rescheduled and the
\* promise is rejected, which resumes a consumeTokensAsync call in a job.
cancelWait(B, c, start) ==
    IF FoundFrom(B.tokenListeners, start, c)
    THEN LET B1 == TokenBucket_scheduleCheckListeners(
                      [B EXCEPT !.tokenListeners = SelectSeq(@, LAMBDA l : l.id # c)])
         IN IF B.calls[c].op = "once"
            THEN settleCall(B1, c, CanceledError)
            ELSE Enqueue([B1 EXCEPT !.calls[c].state = "canceled"], "resume", c)
    ELSE B

\* The cancel callback a call returned.  For consumeTokensAsync: shouldCancel
\* is set and cancelWait, set from the call to onceTokensAvailable until the
\* await of its promise has resumed, is called.  The flag of a call that has
\* settled is read by nobody and is left alone.
cancelCall(B, c, start) ==
    IF B.calls[c].state = "settled"
    THEN B
    ELSE IF B.calls[c].op = "once"
         THEN cancelWait([B EXCEPT !.calls[c].cancelInvoked = TRUE], c, start)
         ELSE cancelWait([B EXCEPT !.calls[c].shouldCancel = TRUE,
                                   !.calls[c].cancelInvoked = TRUE], c, start)

WithOutcome(B, op, count, result) ==
    [B EXCEPT !.outcome = [op |-> op, count |-> count, result |-> result]]
WithoutOutcome(B) == [B EXCEPT !.outcome = NoOutcome]

\* What a call returned or threw is kept only where the caller is modelled
\* as looking at it (report).
Reported(report, B, op, count, result) ==
    IF report THEN WithOutcome(B, op, count, result) ELSE WithoutOutcome(B)

\* ------------------------------------------------------------------------
\* State after new TokenBucket({initialTokens, maxTokens}) or
\* new RollingWindowTokenBucket({..., historyIntervalMs, maxHistoryTokens}),
\* for every initialTokens: _tokenContent is min(initialTokens, maxTokens).
BucketInit ==
    /\ now = 0
    /\ tokenContent \in 0..MaxTokens
    /\ tokenListeners = <<>>
    /\ microtasks = <<>>
    /\ rolling \in BOOLEAN
    /\ history = <<>>
    /\ continuousTokenRestorers = {}
    /\ discreteTokenRestorers = {}
    /\ continuousRestoreRatePerMs = 0
    /\ continuousRestoreLastTimestamp = 0
    /\ checkListenersHandle = 0
    /\ cleanUpHandle = 0
    /\ calls = <<>>
    /\ outcome = NoOutcome
    /\ spent = <<>>
    /\ awaiters = EmptyTree
    /\ requests = <<>>
    /\ watchers = <<>>
    /\ watcher = 0
    /\ lastConsumed = NEGATIVE_INFINITY
    /\ lastResolved = [id |-> 0, at |-> NEGATIVE_INFINITY, priority |-> 0]
    /\ timers = {}
    /\ NoSharedRestorers

\* bucket.consumeTokens(count)
ConsumeTokens(count, report) ==
    BCommit(Reported(report, consumeTokens(BCur, count), "consumeTokens", count,
                IF consumeTokensThrows(count) THEN "Error"
                ELSE IF consumeTokensReturns(BCur, count) THEN "true" ELSE "false"))

\* bucket.onceTokensAvailable(count)
OnceTokensAvailable(count, report, maxCalls) ==
    IF onceTokensAvailableThrows(count)
    THEN BCommit(Reported(report, BCur, "onceTokensAvailable", count, "Error"))
    ELSE /\ Len(calls) < maxCalls
         /\ LET c == Len(calls) + 1
                B1 == [BCur EXCEPT !.calls = Append(@, NewCall("once", count))]
            IN BCommit(WithoutOutcome(onceTokensAvailable(B1, c, count)))

\* bucket.consumeTokensAsync(count): the async function runs up to its first
\* await, or to its end.
ConsumeTokensAsync(count, maxCalls) ==
    /\ Len(calls) < maxCalls
    /\ LET c == Len(calls) + 1
           B1 == [BCur EXCEPT !.calls = Append(@, NewCall("async", count))]
       IN BCommit(WithoutOutcome(consumeTokensAsyncRound(B1, c)))

\* The cancel callback of call c.
CancelCall(c) ==
    /\ c \in Calls
    /\ \E start \in FindStarts(tokenListeners, calls[c].count) :
        BCommit(WithoutOutcome(cancelCall(BCur, c, start)))

\* Continuation of "await promise" in consumeTokensAsync: a rejected wait
\* throws CanceledError, and so does shouldCancel; otherwise the loop goes on.
ResumeCall ==
    /\ NextJob("resume")
    /\ LET c == Head(microtasks).w
           B1 == WithoutOutcome([BCur EXCEPT !.microtasks = Tail(@)])
       IN IF calls[c].state = "canceled" \/ calls[c].shouldCancel
          THEN BCommit(settleCall(B1, c, CanceledError))
          ELSE BCommit(consumeTokensAsyncRound(B1, c))

\* _addOrRemoveContinuousRestorer without the fold at the rate so far.
addOrRemoveContinuousRestorer_WithoutFold(B, restorer, add) ==
    LET B2 == [B EXCEPT !.continuousTokenRestorers =
                           IF add THEN @ \cup {restorer} ELSE @ \ {restorer}]
        B3 == [B2 EXCEPT !.continuousRestoreRatePerMs =
                            computeAggregateRatePerMs(B2.continuousTokenRestorers)]
    IN TokenBucket_scheduleCheckListeners(B3)

\* _addOrRemoveContinuousRestorer: the accrual is folded at the rate so far,
\* the collection changed, the rate computed anew and the recheck rescheduled.
addOrRemoveContinuousRestorer(B, restorer, add) ==
    LET B1 == restoreContinuousTokens(B)
        B2 == [B1 EXCEPT !.continuousTokenRestorers =
                            IF add THEN @ \cup {restorer} ELSE @ \ {restorer}]
        B3 == [B2 EXCEPT !.continuousRestoreRatePerMs =
                            computeAggregateRatePerMs(B2.continuousTokenRestorers)]
    IN TokenBucket_scheduleCheckListeners(B3)

\* bucket.addTokenRestorer(restorer)
AddTokenRestorer(restorer) ==
    /\ microtasks = <<>>
    /\ IF restorer = "continuous"
       THEN IF restorer \notin continuousTokenRestorers
            THEN BCommit(WithoutOutcome(addOrRemoveContinuousRestorer(BCur, restorer, TRUE)))
            ELSE BCommit(WithoutOutcome(BCur))
       ELSE BCommit(WithoutOutcome(
                [BCur EXCEPT !.discreteTokenRestorers = @ \cup {restorer}]))

\* bucket.removeTokenRestorer(restorer)
RemoveTokenRestorer(restorer) ==
    /\ microtasks = <<>>
    /\ IF restorer = "continuous"
       THEN IF restorer \in continuousTokenRestorers
            THEN BCommit(WithoutOutcome(addOrRemoveContinuousRestorer(BCur, restorer, FALSE)))
            ELSE BCommit(WithoutOutcome(BCur))
       ELSE BCommit(WithoutOutcome(
                [BCur EXCEPT !.discreteTokenRestorers = @ \ {restorer}]))

\* bucket.disconnectRestorers()
DisconnectRestorers ==
    /\ microtasks = <<>>
    /\ BCommit(WithoutOutcome(
          [TokenBucket_scheduleCheckListeners(
              [restoreContinuousTokens(BCur) EXCEPT !.continuousTokenRestorers = {},
                                                    !.continuousRestoreRatePerMs = 0])
           EXCEPT !.discreteTokenRestorers = {}]))

\* A tick of the periodic restorer the bucket subscribed to.
PeriodicTick ==
    /\ microtasks = <<>>
    /\ "periodic" \in discreteTokenRestorers
    /\ BCommit(WithoutOutcome(
          TokenBucket_checkListeners(addTokensToBucket(BCur, RestoreAmount))))

\* The recheck timeout fires, not before its deadline.
FireCheckListeners ==
    /\ microtasks = <<>>
    /\ checkListenersHandle # 0
    /\ checkListenersHandle <= now
    /\ BCommit(WithoutOutcome(TokenBucket_checkListeners(BCur)))

\* The clean-up timeout fires, not before its deadline.
FireCleanUp ==
    /\ microtasks = <<>>
    /\ cleanUpHandle # 0
    /\ cleanUpHandle <= now
    /\ BCommit(WithoutOutcome(cleanupHistoricTokens([BCur EXCEPT !.cleanUpHandle = 0])))

\* The methods a TokenBucket has.
TokenBucketMethods ==
    {"addTokenRestorer", "removeTokenRestorer", "disconnectRestorers", "consumeTokens",
     "onceTokensAvailable", "consumeTokensAsync"}

\* limiter.restoreTokens(count): this._tokenBucket.restoreTokens(count).  The
\* call of a property that is undefined throws a TypeError.
RestoreTokens(count) ==
    IF "restoreTokens" \in TokenBucketMethods
    THEN BCommit(WithOutcome(addTokensToBucket(BCur, count), "restoreTokens", count, "returned"))
    ELSE BCommit(WithOutcome(BCur, "restoreTokens", count, "TypeError"))

\* The clock advances.
BucketTick(maxTime) ==
    /\ microtasks = <<>>
    /\ now < maxTime
    /\ BCommit(WithoutOutcome([BCur EXCEPT !.now = @ + 1]))

ConsumeTokensAny == \E count \in BucketCounts : ConsumeTokens(count, FALSE)
OnceTokensAvailableAny == \E count \in WaitCounts : OnceTokensAvailable(count, FALSE, MaxCalls)
ConsumeTokensAsyncAny == \E count \in AsyncCounts : ConsumeTokensAsync(count, MaxCalls)
CancelCallAny == \E c \in Calls : CancelCall(c)
AddTokenRestorerAny == \E r \in {"continuous", "periodic"} : AddTokenRestorer(r)
RemoveTokenRestorerAny == \E r \in {"continuous", "periodic"} : RemoveTokenRestorer(r)

WaitTick == BucketTick(MaxWaitTime)

\* A bucket of either class and the callers waiting on it.
BucketNext ==
    \/ ConsumeTokensAny
    \/ OnceTokensAvailableAny
    \/ ConsumeTokensAsyncAny
    \/ CancelCallAny
    \/ ResumeCall
    \/ AddTokenRestorerAny
    \/ RemoveTokenRestorerAny
    \/ DisconnectRestorers
    \/ PeriodicTick
    \/ FireCheckListeners
    \/ FireCleanUp
    \/ WaitTick

BucketSpec == BucketInit /\ [][BucketNext]_vars

ConsumeTokensSeen == \E count \in BucketCounts : ConsumeTokens(count, TRUE)
OnceTokensAvailableSeen == \E count \in WaitCounts : OnceTokensAvailable(count, TRUE, MaxWaiters)
ConsumeTokensAsyncSeen == \E count \in AsyncCounts : ConsumeTokensAsync(count, MaxWaiters)
RestoreTokensSeen == \E count \in {1, MaxTokens} : RestoreTokens(count)

SyncTick == BucketTick(MaxBucketTime)

\* The same bucket with fewer waiting callers, a longer time, and a caller who looks at what
\* each synchronous call returns or throws.
SyncNext ==
    \/ ConsumeTokensSeen
    \/ OnceTokensAvailableSeen
    \/ ConsumeTokensAsyncSeen
    \/ RestoreTokensSeen
    \/ CancelCallAny
    \/ ResumeCall
    \/ AddTokenRestorerAny
    \/ RemoveTokenRestorerAny
    \/ DisconnectRestorers
    \/ PeriodicTick
    \/ FireCheckListeners
    \/ FireCleanUp
    \/ SyncTick

SyncSpec == BucketInit /\ [][SyncNext]_vars

\* ------------------------------------------------------------------------
\* Claims about the buckets.

Min(x, y) == IF x <= y THEN x ELSE y

\* The step is a call of limiter.restoreTokens.
RestoreTokensStep == outcome'.op = "restoreTokens"

\* C12: limiter.restoreTokens(count) completes without error and the
\* bucket's tokenContent increases by count, capped at maxTokens.
C12_RestoreTokensAddsToBucket ==
    [][RestoreTokensStep
        => /\ outcome'.result = "returned"
           /\ tokenContent' = Min(tokenContent + outcome'.count, MaxTokens)]_vars

\* C13: in every reachable state of a bucket, 0 <= tokenContent <= maxTokens.
C13_TokenContentWithinCapacity == tokenContent >= 0 /\ tokenContent <= MaxTokens

\* A fold of continuous accrual after time 0 left the bucket full, after
\* tokens had been consumed from it, with a waiter registered.
C13_Witness ==
    /\ tokenContent = MaxTokens
    /\ continuousTokenRestorers # {}
    /\ continuousRestoreLastTimestamp > 0
    /\ history # <<>>
    /\ tokenListeners # <<>>

\* C14: on a rolling-window bucket, the tokens consumed during the trailing
\* window [now - historyIntervalMs, now] never exceed maxHistoryTokens.
C14_WindowBudgetIsKept == rolling => SumOf(InWindow(spent, now)) <= MaxHistoryTokens

\* After an earlier window has passed, the budget of the current window is
\* used up, a restorer is installed, tokens are in the bucket, and the
\* consumption just tried was refused.
C14_Witness ==
    /\ rolling
    /\ spent # <<>>
    /\ Head(spent).at > HistoryIntervalMs
    /\ SumOf(spent) = MaxHistoryTokens
    /\ tokenContent > 0
    /\ continuousTokenRestorers \cup discreteTokenRestorers # {}
    /\ outcome.op = "consumeTokens"
    /\ outcome.result = "false"

\* The step is a call of consumeTokens that returned.
ConsumeReturned ==
    /\ outcome'.op = "consumeTokens"
    /\ outcome'.result \in {"true", "false"}

\* The raw consumable tokens of the state: the content with the continuous
\* accrual since the last fold, capped at the capacity.
RawConsumable ==
    Min(tokenContent + Cardinality(continuousTokenRestorers) * ContinuousAmountPerMs
                        * (now - continuousRestoreLastTimestamp),
        MaxTokens)

\* What is left of the window budget: maxHistoryTokens less the ledger
\* entries not older than historyIntervalMs.
WindowBudget == MaxHistoryTokens - SumOf(InWindow(history, now))

\* C15 (as stated, with its example): a consumption the raw tokens allow
\* succeeds again once historyIntervalMs have passed since the ledger's
\* entries.
C15_SucceedsAgainAfterInterval ==
    [][rolling /\ ConsumeReturned
            /\ outcome'.count <= Min(RawConsumable, MaxHistoryTokens)
            /\ (\A i \in DOMAIN history : now - history[i].at >= HistoryIntervalMs)
        => outcome'.result = "true"]_vars

\* C15 (amended): on a rolling-window bucket consumeTokens(count) succeeds
\* iff count <= min(raw consumable tokens, window budget); a successful
\* consumption is entered in the ledger at its timestamp; an entry counts
\* while it is not older than historyIntervalMs, so a consumption the raw
\* tokens allow succeeds again once more than historyIntervalMs have passed.
C15_RollingConsumeWithinBudget ==
    [][rolling /\ ConsumeReturned
        => /\ outcome'.result = "true" <=> outcome'.count <= Min(RawConsumable, WindowBudget)
           /\ outcome'.result = "true"
                => /\ \E i \in DOMAIN history' :
                        history'[i] = [at |-> now, count |-> outcome'.count]
                   /\ SumOf(InWindow(history', now))
                        = SumOf(InWindow(history, now)) + outcome'.count
           /\ /\ outcome'.count <= Min(RawConsumable, MaxHistoryTokens)
              /\ \A i \in DOMAIN history : now - history[i].at > HistoryIntervalMs
              => outcome'.result = "true"]_vars

\* A consumption the raw tokens allow was refused exactly historyIntervalMs
\* after the consumption that used up the budget.
C15_Witness ==
    /\ rolling
    /\ outcome.op = "consumeTokens"
    /\ outcome.result = "false"
    /\ outcome.count <= tokenContent
    /\ history # <<>>
    /\ Head(history).at = now - HistoryIntervalMs

\* After the window has passed, a consumption succeeded again.
C15_SucceedsAgain ==
    /\ rolling
    /\ outcome.op = "consumeTokens"
    /\ outcome.result = "true"
    /\ outcome.count > 0
    /\ now > HistoryIntervalMs
    /\ cleanUpHandle # 0

\* No call is made in the step and every call that has not settled is as it
\* was.
UnsettledCallsUnchanged ==
    /\ Len(calls') = Len(calls)
    /\ \A c \in Calls : calls[c].state # "settled" => calls'[c] = calls[c]

\* The continuous accrual per millisecond.
AccrualPerMs == Cardinality(continuousTokenRestorers) * ContinuousAmountPerMs

\* The consumable tokens of the state, for the bucket's class.
Consumable == IF rolling THEN Min(RawConsumable, WindowBudget) ELSE RawConsumable

C16_SucceedsAfterAccrual ==
    /\ ~rolling
    /\ outcome.op = "consumeTokens"
    /\ outcome.result = "true"
    /\ outcome.count > 0
    /\ continuousTokenRestorers # {}
    /\ now > 0
    /\ tokenContent = 0

\* Call c, pending before the step or made in it, has its wait resolved in
\* the step: the promise of onceTokensAvailable is fulfilled (which wakes a
\* consumeTokensAsync call awaiting it).
WaitResolvedInStep(c) ==
    /\ c \in Calls => calls[c].state = "waiting"
    /\ \/ calls'[c].state = "woken"
       \/ /\ calls'[c].op = "once"
          /\ calls'[c].state = "settled"
          /\ calls'[c].promise = Fulfilled

\* The consumable tokens after a step that ran a check pass (the accrual is
\* folded by then).
ConsumableAfterStep ==
    IF rolling
    THEN Min(tokenContent', MaxHistoryTokens - SumOf(InWindow(history', now')))
    ELSE tokenContent'

\* The step is a tick of the periodic restorer that adds tokens: without a
\* continuous restorer nothing else does.
TokensRiseInStep ==
    /\ continuousTokenRestorers = {}
    /\ tokenContent' > tokenContent

\* C17: waiters are resolved in ascending order of their counts.  A step
\* that resolves a waiter resolves only waiters whose count the consumable
\* tokens cover, and leaves no waiter pending with a smaller count, nor any
\* whose count the consumable tokens cover; and when a tick raises the
\* tokens, every waiter whose count they cover is resolved: tokens that rise
\* to exactly a resolve the a-waiter and not the b-waiter, a < b.
C17_WaitersResolveAscending ==
    [][/\ \A c \in 1..Len(calls') :
            WaitResolvedInStep(c)
                => /\ calls'[c].count <= ConsumableAfterStep
                   /\ \A d \in 1..Len(calls') :
                        calls'[d].state = "waiting" => calls'[d].count >= calls'[c].count
                   /\ \A i \in DOMAIN tokenListeners' :
                        tokenListeners'[i].count > ConsumableAfterStep
       /\ TokensRiseInStep
            => \A i \in DOMAIN tokenListeners' :
                    tokenListeners'[i].count > ConsumableAfterStep]_vars

\* A consumeTokensAsync call that waited has been woken while a waiter with a
\* larger count stays registered.
C17_Witness ==
    \E c, d \in Calls :
        /\ calls[c].op = "async"
        /\ calls[c].state = "woken"
        /\ calls[d].state = "waiting"
        /\ \E i \in DOMAIN tokenListeners : tokenListeners[i].id = d
        /\ calls[d].count > calls[c].count

\* Call c has a listener registered.
IsRegistered(c) == \E i \in DOMAIN tokenListeners : tokenListeners[i].id = c

\* C18: a consumeTokensAsync(count) call has exactly count deducted if its
\* promise is fulfilled and nothing otherwise, the bucket is never
\* overdrawn, and a call whose cancel was invoked before it settled has
\* nothing deducted and no waiter of its own registered.
C18_AsyncCallDeductsOnceOrNothing ==
    /\ tokenContent >= 0
    /\ \A c \in Calls :
        calls[c].op = "async"
            => /\ calls[c].deducted = IF calls[c].promise = Fulfilled THEN calls[c].count ELSE 0
               /\ calls[c].promise = Fulfilled => calls[c].state = "settled"
               /\ calls[c].cancelInvoked
                    => /\ calls[c].deducted = 0
                       /\ ~IsRegistered(c)
                       /\ calls[c].promise \in {Pending, CanceledError}

\* C19: once the cancel callback of an onceTokensAvailable call was invoked
\* before the call's promise settled, the call's registration is removed and
\* its promise is rejected with CanceledError.
C19_CancelRemovesOwnRegistration ==
    \A c \in Calls :
        calls[c].op = "once" /\ calls[c].cancelInvoked
            => /\ ~IsRegistered(c)
               /\ calls[c].promise = CanceledError

\* The state of the bucket, without the calls and what the caller saw.
bucketState ==
    <<now, tokenContent, tokenListeners, microtasks, rolling, history,
      continuousTokenRestorers, discreteTokenRestorers, continuousRestoreRatePerMs,
      continuousRestoreLastTimestamp, checkListenersHandle, cleanUpHandle, spent>>

\* C20: consumeTokens throws iff its count is negative, onceTokensAvailable
\* registers no waiter for a count above maxTokens, and a call that throws
\* leaves the bucket as it was.
C20_InvalidCountsThrowAndChangeNothing ==
    [][/\ outcome'.op = "consumeTokens"
            => (outcome'.result = "Error" <=> outcome'.count < 0)
       /\ Len(calls') > Len(calls)
            => calls'[Len(calls')].count <= MaxTokens
       /\ \A i \in DOMAIN tokenListeners' : tokenListeners'[i].count <= MaxTokens
       /\ outcome'.result = "Error"
            => /\ outcome'.op = "onceTokensAvailable" => outcome'.count > MaxTokens
               /\ bucketState' = bucketState
               /\ UnsettledCallsUnchanged]_vars

\* onceTokensAvailable has thrown on a bucket with tokens, a waiter and an
\* entry in the ledger.
C20_Witness ==
    /\ outcome.op = "onceTokensAvailable"
    /\ outcome.result = "Error"
    /\ tokenContent > 0
    /\ tokenListeners # <<>>
    /\ history # <<>>

\* consumeTokens has thrown on such a bucket.
C20_ConsumeThrew ==
    /\ outcome.op = "consumeTokens"
    /\ outcome.result = "Error"
    /\ tokenContent > 0
    /\ tokenListeners # <<>>

\* ------------------------------------------------------------------------
\* The limiter under fair scheduling.  The callers ask for counts the bucket
\* can hold, so that the periodic restorer supplies every count in the end.
SuppliedCounts == 1..MaxTokens

\* A caller of the stream makes its call when fewer watchers than this are
\* still referred to.
MaxLiveWatchers == 2

\* Objects nothing refers to any more are garbage: a watcher that was
\* collected and that no listener, job or timeout names, and a settled
\* request that is neither queued nor the awaiter of a watcher.  Their places
\* are given to the objects created next, which bounds the state of an
\* unbounded stream of calls; the remaining watchers keep their order.
KeptWatchers(S) ==
    {w \in 1..Len(S.watchers) :
        \/ S.watchers[w] # Collected
        \/ S.watcher = w
        \/ \E i \in 1..Len(S.tokenListeners) : S.tokenListeners[i].w = w
        \/ \E i \in 1..Len(S.microtasks) : S.microtasks[i].w = w
        \/ \E t \in S.timers : t.w = w
        \/ \E v \in 1..Len(S.watchers) :
              S.watchers[v].prev = w /\ S.watchers[v].pc \in {"start", "awaitPrev"}}

NewIndex(kept, w) == IF w \in kept THEN Cardinality({k \in kept : k <= w}) ELSE 0
OldIndex(kept, i) == CHOOSE k \in kept : NewIndex(kept, k) = i

forgetWatchers(S) ==
    LET kept == KeptWatchers(S)
    IN [S EXCEPT
          !.watchers = [i \in 1..Cardinality(kept) |->
                          [S.watchers[OldIndex(kept, i)] EXCEPT !.prev = NewIndex(kept, @)]],
          !.watcher = NewIndex(kept, @),
          !.tokenListeners = [i \in 1..Len(@) |-> [@[i] EXCEPT !.w = NewIndex(kept, @)]],
          !.microtasks = [i \in 1..Len(@) |-> [@[i] EXCEPT !.w = NewIndex(kept, @)]],
          !.timers = {[t EXCEPT !.w = NewIndex(kept, @)] : t \in @}]

\* The history kept of the requests is cut to "none or some".
forgetHistory(S) ==
    [S EXCEPT !.requests =
        [a \in 1..Len(@) |->
            [@[a] EXCEPT !.paid = IF @ > 1 THEN 1 ELSE @,
                         !.settles = IF @ > 1 THEN 1 ELSE @,
                         !.paidBefore = {}]]]

FreeRequests(S) ==
    {a \in 1..Len(S.requests) :
        /\ IsSettled(S.requests[a].promise)
        /\ a \notin Queued(S.awaiters)
        /\ \A w \in 1..Len(S.watchers) : S.watchers[w].awaiter.id # a}

\* limiter.consumeTokensAsync(tokenCount, priority) of a caller in a stream of
\* calls: as Submit, the new objects taking the places of garbage.
SubmitInStream(tokenCount, priority) ==
    LET S0 == forgetWatchers(forgetHistory(Cur))
        free == FreeRequests(S0)
        a == IF free = {} THEN Len(requests) + 1
             ELSE CHOOSE x \in free : \A y \in free : x <= y
        S1 == [S0 EXCEPT
                 !.requests = IF a > Len(@) THEN Append(@, NewRequest({}))
                              ELSE [@ EXCEPT ![a] = NewRequest({})],
                 !.lastResolved = IF @.id = a THEN [@ EXCEPT !.id = 0] ELSE @,
                 !.awaiters = addAwaiter(@, priority, Awaiter(a, tokenCount))]
    IN /\ a <= MaxRequests
       /\ Len(S0.watchers) < MaxLiveWatchers
       /\ Commit(recreateWatcher(S1))
       /\ UNCHANGED now

SubmitSupplied ==
    \E tokenCount \in SuppliedCounts, priority \in Priorities :
        SubmitInStream(tokenCount, priority)

\* The jobs of the promise job queue: the engine runs the queue until it is
\* empty before it returns to the event loop.
RunJob ==
    \/ PrevSettled
    \/ RaceReact
    \/ StaggerDone
    \/ ConsumeDone
    \/ BucketResume
    \/ ConsumeAwait

LiveNext ==
    \/ SubmitSupplied
    \/ CancelAny
    \/ RunJob
    \/ RestoreTick
    \/ FireTimer
    \/ Tick

\* Fair scheduling of the event loop.  The job queue is drained again and
\* again (callers do not keep it busy for ever); the interval of the restorer
\* and due timeouts are macrotasks, run whenever they are due with the job
\* queue empty again and again, and the clock moves on.  The conditions on
\* RestoreTick and FireTimer are SF_vars(RestoreTick) and SF_vars(FireTimer)
\* with ENABLED written out as RestoreDue and TimerDue.
JobsWaiting == microtasks # <<>>
TimerDue == microtasks = <<>> /\ \E t \in timers : t.deadline <= now
RestoreDue == microtasks = <<>> /\ tokenContent < MaxTokens

LiveSpec ==
    /\ Init
    /\ [][LiveNext]_vars
    /\ []<>(~JobsWaiting)
    /\ SF_vars(Tick)
    /\ (<>[](~RestoreDue) \/ []<><<RestoreTick>>_vars)
    /\ (<>[](~TimerDue) \/ []<><<FireTimer>>_vars)

\* The clock of the model has reached its last instant with a stagger
\* timeout still ahead of it.
ClockRanOut == now = MaxTime /\ \E t \in timers : t.deadline > now

\* Request a is the one the watcher serves next: the first of the group of
\* the highest priority.  It stays so until it is served, cancelled or
\* overtaken by a request of a higher priority.
IsFirstInLine(a) ==
    DOMAIN awaiters # {} /\ FirstHighestPriorityAwaiter(awaiters).id = a

\* C21: under fair scheduling, with ticks that supply every requested count,
\* a request that is not cancelled and not overtaken is resolved in the end,
\* whatever calls of the same or a lower priority keep arriving: no request
\* stays first in line for ever.
C21_FirstInLineIsEventuallyServed ==
    \A a \in 1..MaxRequests :
        IsFirstInLine(a) ~> (~IsFirstInLine(a) \/ ClockRanOut)

\* ------------------------------------------------------------------------
\* Restorers shared by several buckets: PeriodicTokenRestorer objects, each
\* with its listeners and its interval, ContinuousTokenRestorer objects of
\* different rates, and TokenBucket objects that add and remove them.
SharedBuckets == {1, 2}
AccruingBucket == 1
ContinuousRestorers == {"continuous", "continuous2"}
PeriodicRestorers == {"periodic", "periodic2"}

MaxSharedTime == 1
MaxSharedWaiters == 1
SharedCounts == {1, MaxTokens}

\* rate.amount of the periodic restorer objects.
PeriodicAmount(p) == IF p = "periodic2" THEN MaxTokens ELSE RestoreAmount

\* new TokenBucket({initialTokens, maxTokens}); the clock is read when a
\* method runs.
NewBucket(initialTokens) ==
    [now |-> 0, tokenContent |-> initialTokens, tokenListeners |-> <<>>,
     microtasks |-> <<>>, rolling |-> FALSE, history |-> <<>>,
     continuousTokenRestorers |-> {}, discreteTokenRestorers |-> {},
     continuousRestoreRatePerMs |-> 0, continuousRestoreLastTimestamp |-> 0,
     checkListenersHandle |-> 0, cleanUpHandle |-> 0,
     calls |-> <<>>, outcome |-> NoOutcome, spent |-> <<>>]

\* new PeriodicTokenRestorer(rate): _listeners in insertion order, and
\* _timerHandle (0: undefined).
NewPeriodicTokenRestorer == [listeners |-> <<>>, timerHandle |-> 0]

\* The state one synchronous run works on, and what the call it makes
\* returns.
NoReturn == [op |-> "none", bucket |-> 0, restorer |-> "none", value |-> FALSE]

RCur ==
    [now |-> now, buckets |-> buckets, periodicRestorers |-> periodicRestorers,
     intervals |-> intervals, returned |-> NoReturn]

\* The calls whose promise has settled are the callers' business: a bucket
\* keeps the calls it still holds a listener of.
RECURSIVE waitingCalls(_)
waitingCalls(cs) ==
    IF cs # <<>> /\ cs[Len(cs)].state = "settled"
    THEN waitingCalls(SubSeq(cs, 1, Len(cs) - 1))
    ELSE [c \in DOMAIN cs |-> IF cs[c].state = "settled" THEN Forgotten ELSE cs[c]]

RCommit(R) ==
    /\ now' = R.now
    /\ buckets' = [b \in DOMAIN R.buckets |->
                     [R.buckets[b] EXCEPT !.calls = waitingCalls(@)]]
    /\ periodicRestorers' = R.periodicRestorers
    /\ intervals' = R.intervals
    /\ UNCHANGED <<tokenContent, tokenListeners, microtasks>>
    /\ UNCHANGED limiterVars
    /\ UNCHANGED bucketVars

\* Bucket b at the time of the run, and the run's result put back.
BucketOf(R, b) == [R.buckets[b] EXCEPT !.now = R.now]
WithBucket(R, b, B) == [R EXCEPT !.buckets[b] = [B EXCEPT !.now = 0]]

Returning(R, op, b, restorer, value) ==
    [R EXCEPT !.returned = [op |-> op, bucket |-> b, restorer |-> restorer,
                            value |-> value]]

IsListener(ls, cb) == \E i \in 1..Len(ls) : ls[i] = cb

\* scheduler.setInterval returns a handle no running interval has.
NewHandle(running) ==
    CHOOSE h \in 1..(Cardinality(running) + 1) : \A i \in running : i.handle # h

\* subscribe starting an interval whether or not one is running.
subscribe_AlwaysStartsTimer(R, p, cb) ==
    LET R1 == [R EXCEPT !.periodicRestorers[p].listeners =
                            IF IsListener(@, cb) THEN @ ELSE Append(@, cb)]
        h == NewHandle(R1.intervals)
    IN [R1 EXCEPT !.intervals = @ \cup {[handle |-> h, restorer |-> p]},
                  !.periodicRestorers[p].timerHandle = h]

\* PeriodicTokenRestorer.subscribe(onTokensRestored); cb identifies the
\* callback, the closure addTokenRestorer of bucket cb created.
subscribe(R, p, cb) ==
    LET R1 == [R EXCEPT !.periodicRestorers[p].listeners =
                            IF IsListener(@, cb) THEN @ ELSE Append(@, cb)]
    IN IF R1.periodicRestorers[p].timerHandle = 0
       THEN LET h == NewHandle(R1.intervals)
            IN [R1 EXCEPT !.intervals = @ \cup {[handle |-> h, restorer |-> p]},
                          !.periodicRestorers[p].timerHandle = h]
       ELSE R1

\* The teardown callback subscribe returned.
teardown(R, p, cb) ==
    LET R1 == [R EXCEPT !.periodicRestorers[p].listeners =
                            SelectSeq(@, LAMBDA x : x # cb)]
    IN IF Len(R1.periodicRestorers[p].listeners) <= 0
       THEN [R1 EXCEPT !.intervals =
                          {i \in @ : i.handle # R1.periodicRestorers[p].timerHandle},
                       !.periodicRestorers[p].timerHandle = 0]
       ELSE R1

\* The callback addTokenRestorer of bucket b passes to subscribe.
onTokensRestored(R, b, count) ==
    WithBucket(R, b, TokenBucket_checkListeners(addTokensToBucket(BucketOf(R, b), count)))

\* An interval callback that calls the first listener only.
restoreEach_FirstOnly(R, ls, amount) ==
    IF ls = <<>> THEN R ELSE onTokensRestored(R, Head(ls), amount)

\* The callback of the interval: every listener is called with the amount.
RECURSIVE restoreEach(_, _, _)
restoreEach(R, ls, amount) ==
    IF ls = <<>>
    THEN R
    ELSE restoreEach(onTokensRestored(R, Head(ls), amount), Tail(ls), amount)

\* bucket.addTokenRestorer(restorer) and what it returns.
addTokenRestorer(R, b, restorer) ==
    LET B == BucketOf(R, b)
    IN IF restorer \in ContinuousRestorers
       THEN IF restorer \notin B.continuousTokenRestorers
            THEN Returning(
                    WithBucket(R, b, addOrRemoveContinuousRestorer(B, restorer, TRUE)),
                    "addTokenRestorer", b, restorer, TRUE)
            ELSE Returning(R, "addTokenRestorer", b, restorer, FALSE)
       ELSE IF restorer \notin B.discreteTokenRestorers
            THEN LET R1 == subscribe(R, restorer, b)
                 IN Returning(
                       [R1 EXCEPT !.buckets[b].discreteTokenRestorers = @ \cup {restorer}],
                       "addTokenRestorer", b, restorer, TRUE)
            ELSE Returning(R, "addTokenRestorer", b, restorer, FALSE)

\* removeTokenRestorer that forgets to call the teardown of a discrete
\* restorer.
removeTokenRestorer_KeepsSubscription(R, b, restorer) ==
    LET B == BucketOf(R, b)
    IN IF restorer \in ContinuousRestorers
       THEN IF restorer \in B.continuousTokenRestorers
            THEN Returning(
                    WithBucket(R, b, addOrRemoveContinuousRestorer(B, restorer, FALSE)),
                    "removeTokenRestorer", b, restorer, TRUE)
            ELSE Returning(R, "removeTokenRestorer", b, restorer, FALSE)
       ELSE IF restorer \in B.discreteTokenRestorers
            THEN Returning(
                    [R EXCEPT !.buckets[b].discreteTokenRestorers = @ \ {restorer}],
                    "removeTokenRestorer", b, restorer, TRUE)
            ELSE Returning(R, "removeTokenRestorer", b, restorer, FALSE)

\* bucket.removeTokenRestorer(restorer) and what it returns.
removeTokenRestorer(R, b, restorer) ==
    LET B == BucketOf(R, b)
    IN IF restorer \in ContinuousRestorers
       THEN IF restorer \in B.continuousTokenRestorers
            THEN Returning(
                    WithBucket(R, b, addOrRemoveContinuousRestorer(B, restorer, FALSE)),
                    "removeTokenRestorer", b, restorer, TRUE)
            ELSE Returning(R, "removeTokenRestorer", b, restorer, FALSE)
       ELSE IF restorer \in B.discreteTokenRestorers
            THEN Returning(
                    teardown([R EXCEPT !.buckets[b].discreteTokenRestorers = @ \ {restorer}],
                             restorer, b),
                    "removeTokenRestorer", b, restorer, TRUE)
            ELSE Returning(R, "removeTokenRestorer", b, restorer, FALSE)

\* The loop of disconnectRestorers over the discrete restorers.
RECURSIVE teardownEach(_, _, _)
teardownEach(R, b, ps) ==
    IF ps = {}
    THEN R
    ELSE LET p == CHOOSE x \in ps : TRUE
         IN teardownEach(
               teardown([R EXCEPT !.buckets[b].discreteTokenRestorers = @ \ {p}], p, b),
               b, ps \ {p})

\* disconnectRestorers that forgets the discrete restorers without calling
\* their teardown.
disconnectRestorers_WithoutTeardown(R, b) ==
    LET B1 == restoreContinuousTokens(BucketOf(R, b))
        B2 == [B1 EXCEPT !.continuousTokenRestorers = {},
                         !.continuousRestoreRatePerMs = 0,
                         !.discreteTokenRestorers = {}]
    IN Returning(WithBucket(R, b, TokenBucket_scheduleCheckListeners(B2)),
                 "disconnectRestorers", b, "none", TRUE)

\* bucket.disconnectRestorers()
disconnectRestorers(R, b) ==
    LET B1 == restoreContinuousTokens(BucketOf(R, b))
        B2 == [B1 EXCEPT !.continuousTokenRestorers = {},
                         !.continuousRestoreRatePerMs = 0]
        R1 == WithBucket(R, b, TokenBucket_scheduleCheckListeners(B2))
    IN Returning(teardownEach(R1, b, R1.buckets[b].discreteTokenRestorers),
                 "disconnectRestorers", b, "none", TRUE)

\* State after construction of the buckets and of the restorers.
RestorerInit ==
    /\ now = 0
    /\ buckets \in [SharedBuckets -> {NewBucket(c) : c \in 0..MaxTokens}]
    /\ periodicRestorers = [p \in PeriodicRestorers |-> NewPeriodicTokenRestorer]
    /\ intervals = {}
    /\ tokenContent = 0
    /\ tokenListeners = <<>>
    /\ microtasks = <<>>
    /\ rolling = FALSE
    /\ history = <<>>
    /\ continuousTokenRestorers = {}
    /\ discreteTokenRestorers = {}
    /\ continuousRestoreRatePerMs = 0
    /\ continuousRestoreLastTimestamp = 0
    /\ checkListenersHandle = 0
    /\ cleanUpHandle = 0
    /\ calls = <<>>
    /\ outcome = NoOutcome
    /\ spent = <<>>
    /\ awaiters = EmptyTree
    /\ requests = <<>>
    /\ watchers = <<>>
    /\ watcher = 0
    /\ lastConsumed = NEGATIVE_INFINITY
    /\ lastResolved = [id |-> 0, at |-> NEGATIVE_INFINITY, priority |-> 0]
    /\ timers = {}

BucketAddTokenRestorer(b, restorer) == RCommit(addTokenRestorer(RCur, b, restorer))

BucketRemoveTokenRestorer(b, restorer) == RCommit(removeTokenRestorer(RCur, b, restorer))

BucketDisconnectRestorers(b) == RCommit(disconnectRestorers(RCur, b))

\* The interval i of the scheduler ticks.
IntervalTick(i) ==
    RCommit(restoreEach(RCur, periodicRestorers[i.restorer].listeners,
                PeriodicAmount(i.restorer)))

\* bucket.consumeTokens(count) of bucket b.
BucketConsumeTokens(b, count) ==
    RCommit(Returning(WithBucket(RCur, b, consumeTokens(BucketOf(RCur, b), count)),
                      "consumeTokens", b, "none",
                      consumeTokensReturns(BucketOf(RCur, b), count)))

\* bucket.onceTokensAvailable(count) of bucket b.
BucketOnceTokensAvailable(b, count) ==
    /\ Len(buckets[b].calls) < MaxSharedWaiters
    /\ LET c == Len(buckets[b].calls) + 1
           B1 == [BucketOf(RCur, b) EXCEPT !.calls = Append(@, NewCall("once", count))]
       IN RCommit(WithBucket(RCur, b, onceTokensAvailable(B1, c, count)))

\* The recheck timeout of bucket b fires, not before its deadline.
BucketFireCheckListeners(b) ==
    /\ buckets[b].checkListenersHandle # 0
    /\ buckets[b].checkListenersHandle <= now
    /\ RCommit(WithBucket(RCur, b, TokenBucket_checkListeners(BucketOf(RCur, b))))

\* The clock advances.
SharedTick ==
    /\ now < MaxSharedTime
    /\ RCommit([RCur EXCEPT !.now = @ + 1])

\* Every bucket is given the periodic restorers, the bucket AccruingBucket
\* the continuous ones too.
RestorersFor(b) ==
    IF b = AccruingBucket THEN ContinuousRestorers \cup PeriodicRestorers
    ELSE PeriodicRestorers

RestorerNext ==
    \/ \E b \in SharedBuckets : \E r \in RestorersFor(b) : BucketAddTokenRestorer(b, r)
    \/ \E b \in SharedBuckets : \E r \in RestorersFor(b) : BucketRemoveTokenRestorer(b, r)
    \/ \E b \in SharedBuckets : BucketDisconnectRestorers(b)
    \/ \E i \in intervals : IntervalTick(i)
    \/ \E b \in SharedBuckets, count \in SharedCounts : BucketConsumeTokens(b, count)
    \/ \E b \in SharedBuckets : BucketOnceTokensAvailable(b, MaxTokens)
    \/ \E b \in SharedBuckets : BucketFireCheckListeners(b)
    \/ SharedTick

RestorerSpec == RestorerInit /\ [][RestorerNext]_vars

\* ------------------------------------------------------------------------
\* Claims about the restorers.
Subscribers(p) == periodicRestorers[p].listeners
RunningTimers(p) == {i \in intervals : i.restorer = p}

\* C22: a PeriodicTokenRestorer has a running interval exactly when it has a
\* subscriber, it is the interval of its _timerHandle, and it never has two.
C22_OneTimerIffSubscribed ==
    \A p \in PeriodicRestorers :
        /\ Subscribers(p) # <<>> <=> RunningTimers(p) # {}
        /\ Cardinality(RunningTimers(p)) <= 1
        /\ periodicRestorers[p].timerHandle # 0 <=> Subscribers(p) # <<>>
        /\ \A i \in RunningTimers(p) : i.handle = periodicRestorers[p].timerHandle

\* Both restorers tick, one of them for two subscribers.
C22_Witness ==
    /\ Len(Subscribers("periodic")) = 2
    /\ Cardinality(RunningTimers("periodic")) = 1
    /\ Cardinality(RunningTimers("periodic2")) = 1
    /\ \E b \in SharedBuckets : buckets[b].tokenContent = MaxTokens

\* What consumeTokens of bucket b could take in state R.
Observable(R, b) == consumableTokens_Raw(BucketOf(R, b))

\* The state after the interval i of the scheduler has ticked in this state.
AfterTick(i) ==
    restoreEach(RCur, periodicRestorers[i.restorer].listeners,
                PeriodicAmount(i.restorer))

StillListening(R, b) ==
    {R.buckets[b].tokenListeners[k].count : k \in DOMAIN R.buckets[b].tokenListeners}

\* C23: a tick of a PeriodicTokenRestorer adds its amount, capped at
\* maxTokens, to every bucket attached to it at that moment, in that one
\* tick, and resolves the waiters of each of them that now have enough; a
\* bucket that is not attached to it, and the timer of every other restorer,
\* are left as they were.
C23_TickRestoresEveryAttachedBucket ==
    \A i \in intervals :
        LET p == i.restorer
            R2 == AfterTick(i)
        IN /\ R2.intervals = intervals
           /\ R2.periodicRestorers = periodicRestorers
           /\ \A b \in SharedBuckets :
                 IF p \in buckets[b].discreteTokenRestorers
                 THEN /\ Observable(R2, b) =
                             Min(MaxTokens, Observable(RCur, b) + PeriodicAmount(p))
                      /\ \A count \in StillListening(R2, b) : count > Observable(R2, b)
                      /\ \A c \in DOMAIN buckets[b].calls :
                            /\ buckets[b].calls[c].state = "waiting"
                            /\ buckets[b].calls[c].count <= Observable(R2, b)
                            => R2.buckets[b].calls[c].promise = Fulfilled
                      /\ \A c \in DOMAIN buckets[b].calls :
                            /\ buckets[b].calls[c].state = "waiting"
                            /\ buckets[b].calls[c].count > Observable(R2, b)
                            => R2.buckets[b].calls[c] = buckets[b].calls[c]
                 ELSE R2.buckets[b] = buckets[b]

\* One restorer with both buckets attached, each one tick short of what its
\* waiter asks for: the tick resolves both waiters.
C23_Witness ==
    /\ Len(Subscribers("periodic")) = 2
    /\ \A b \in SharedBuckets :
          /\ buckets[b].tokenListeners # <<>>
          /\ Observable(RCur, b) = MaxTokens - PeriodicAmount("periodic")
          /\ \E i \in RunningTimers("periodic") :
                /\ AfterTick(i).buckets[b].tokenListeners = <<>>
                /\ AfterTick(i).buckets[b].tokenContent = MaxTokens

AllRestorers == ContinuousRestorers \cup PeriodicRestorers

HasRestorer(R, b, restorer) ==
    \/ restorer \in R.buckets[b].continuousTokenRestorers
    \/ restorer \in R.buckets[b].discreteTokenRestorers

\* The state a call leaves, without the value it returned.
StateOf(R) == [R EXCEPT !.returned = NoReturn]

\* amount / intervalMs summed over the registered continuous restorers.
SumOfRegisteredRates(b) ==
    (IF "continuous" \in buckets[b].continuousTokenRestorers
     THEN ContinuousAmountPerMs ELSE 0)
    + (IF "continuous2" \in buckets[b].continuousTokenRestorers
       THEN 2 * ContinuousAmountPerMs ELSE 0)

Subscriptions(p, b) == {k \in DOMAIN Subscribers(p) : Subscribers(p)[k] = b}

\* C24: addTokenRestorer returns true and registers the restorer when it was
\* not registered, and returns false and changes nothing when it was;
\* removeTokenRestorer returns true and unregisters it when it was
\* registered, and returns false and changes nothing when it was not.  The
\* aggregate continuous rate of a bucket is always the sum of the rates of
\* its registered continuous restorers, and a bucket is subscribed exactly
\* once to each discrete restorer it has registered and to no other.
C24_RegistrationIsIdempotent ==
    \A b \in SharedBuckets :
        /\ \A r \in AllRestorers :
              LET added == addTokenRestorer(RCur, b, r)
                  removed == removeTokenRestorer(RCur, b, r)
              IN /\ added.returned.value = ~HasRestorer(RCur, b, r)
                 /\ HasRestorer(added, b, r)
                 /\ HasRestorer(RCur, b, r) => StateOf(added) = RCur
                 /\ removed.returned.value = HasRestorer(RCur, b, r)
                 /\ ~HasRestorer(removed, b, r)
                 /\ ~HasRestorer(RCur, b, r) => StateOf(removed) = RCur
                 /\ \A other \in AllRestorers \ {r} :
                       /\ HasRestorer(added, b, other) = HasRestorer(RCur, b, other)
                       /\ HasRestorer(removed, b, other) = HasRestorer(RCur, b, other)
        /\ buckets[b].continuousRestoreRatePerMs = SumOfRegisteredRates(b)
        /\ \A p \in PeriodicRestorers :
              Cardinality(Subscriptions(p, b)) =
                  IF p \in buckets[b].discreteTokenRestorers THEN 1 ELSE 0

\* A bucket with both continuous restorers and one periodic restorer that
\* the other bucket has too, after the other periodic restorer was removed
\* from it.
C24_Witness ==
    /\ buckets[1].continuousTokenRestorers = ContinuousRestorers
    /\ buckets[1].continuousRestoreRatePerMs = 3 * ContinuousAmountPerMs
    /\ buckets[1].discreteTokenRestorers = {"periodic"}
    /\ Subscribers("periodic") = <<2, 1>>
    /\ Subscribers("periodic2") = <<2>>
    /\ now > 0

\* Bucket b of state R has no restorer left.
IsDetached(R, b) ==
    /\ R.buckets[b].continuousTokenRestorers = {}
    /\ R.buckets[b].discreteTokenRestorers = {}

\* The state after the restorer p has ticked in state R (whoever listens).
AfterTickOf(R, p) ==
    restoreEach(R, R.periodicRestorers[p].listeners, PeriodicAmount(p))

\* Neither a later reading of the clock nor a tick of any periodic restorer
\* changes what bucket b of state R holds.
NothingRestores(R, b) ==
    /\ \A t \in R.now..(MaxSharedTime + 1) :
          Observable([R EXCEPT !.now = t], b) = R.buckets[b].tokenContent
    /\ \A p \in PeriodicRestorers :
          AfterTickOf(R, p).buckets[b].tokenContent = R.buckets[b].tokenContent

\* C25: disconnectRestorers leaves the bucket with no continuous and no
\* discrete restorer and an aggregate rate of zero, with what had accrued
\* until the call credited; from then on, as long as no restorer is added,
\* neither time nor a tick of a restorer it was attached to changes
\* tokenContent.  A tick of a single discrete restorer that was removed with
\* removeTokenRestorer does not change it either.
C25_DisconnectedBucketIsNotRestored ==
    \A b \in SharedBuckets :
        /\ LET R2 == StateOf(disconnectRestorers(RCur, b))
           IN /\ IsDetached(R2, b)
              /\ R2.buckets[b].continuousRestoreRatePerMs = 0
              /\ R2.buckets[b].tokenContent = Observable(RCur, b)
              /\ \A p \in PeriodicRestorers :
                    ~IsListener(R2.periodicRestorers[p].listeners, b)
              /\ NothingRestores(R2, b)
              /\ \A other \in SharedBuckets \ {b} : R2.buckets[other] = buckets[other]
        /\ IsDetached(RCur, b) =>
              /\ buckets[b].continuousRestoreRatePerMs = 0
              /\ NothingRestores(RCur, b)
        /\ \A p \in buckets[b].discreteTokenRestorers :
              LET R3 == StateOf(removeTokenRestorer(RCur, b, p))
              IN /\ ~IsListener(R3.periodicRestorers[p].listeners, b)
                 /\ AfterTickOf(R3, p).buckets[b].tokenContent
                        = R3.buckets[b].tokenContent

\* A bucket with accrual that is not yet credited, attached to both periodic
\* restorers, which keep ticking for the other bucket after it disconnects.
C25_Witness ==
    /\ buckets[1].continuousTokenRestorers # {}
    /\ buckets[1].discreteTokenRestorers = PeriodicRestorers
    /\ buckets[2].discreteTokenRestorers = PeriodicRestorers
    /\ Observable(RCur, 1) > buckets[1].tokenContent
    /\ LET R2 == disconnectRestorers(RCur, 1)
       IN /\ R2.buckets[1].tokenContent = Observable(RCur, 1)
          /\ R2.buckets[1].tokenContent < MaxTokens
          /\ Cardinality(R2.intervals) = 2

\* ------------------------------------------------------------------------
\* One bucket and its continuous restorers over a longer time: restorers
\* are added and removed, the bucket is consumed from, waited on and
\* rechecked, at any reading of the clock.
MaxAccrualTime == 3

AccrualInit ==
    /\ RestorerInit
    /\ \A b \in SharedBuckets \ {AccruingBucket} : buckets[b] = NewBucket(0)

\* The clock advances.
AccrualTick ==
    /\ now < MaxAccrualTime
    /\ RCommit([RCur EXCEPT !.now = @ + 1])

AccrualNext ==
    \/ \E r \in ContinuousRestorers : BucketAddTokenRestorer(AccruingBucket, r)
    \/ \E r \in ContinuousRestorers : BucketRemoveTokenRestorer(AccruingBucket, r)
    \/ BucketDisconnectRestorers(AccruingBucket)
    \/ \E count \in SharedCounts : BucketConsumeTokens(AccruingBucket, count)
    \/ BucketOnceTokensAvailable(AccruingBucket, MaxTokens)
    \/ BucketFireCheckListeners(AccruingBucket)
    \/ AccrualTick

AccrualSpec == AccrualInit /\ [][AccrualNext]_vars

\* ------------------------------------------------------------------------
\* Claims about continuous accrual.
Accrued == Observable(RCur, AccruingBucket)
AccrualRate == buckets[AccruingBucket].continuousRestoreRatePerMs

\* A step that polls the bucket and takes nothing from it: a consumeTokens
\* that returns false, an onceTokensAvailable, a recheck of the waiters, or
\* the clock alone.
FailedConsume ==
    \E count \in SharedCounts :
        /\ ~consumeTokensReturns(BucketOf(RCur, AccruingBucket), count)
        /\ BucketConsumeTokens(AccruingBucket, count)

PollingStep ==
    \/ FailedConsume
    \/ BucketOnceTokensAvailable(AccruingBucket, MaxTokens)
    \/ BucketFireCheckListeners(AccruingBucket)
    \/ AccrualTick

\* C26: across any step that polls the bucket without consuming, and across
\* any advance of the clock, what can be consumed afterwards is what could
\* be consumed before plus rate * elapsed time, capped at maxTokens; the
\* rate and the restorers stay as they were.  Hence after any number of such
\* steps over a time t the content is min(maxTokens, c0 + r * t).
C26_AccrualIsIndependentOfPolling ==
    [][PollingStep =>
          /\ Accrued' = Min(MaxTokens, Accrued + AccrualRate * (now' - now))
          /\ AccrualRate' = AccrualRate
          /\ buckets'[AccruingBucket].continuousTokenRestorers
                = buckets[AccruingBucket].continuousTokenRestorers]_vars

\* The bucket was polled at time 1 with one token accrued, and at time 2 it
\* holds two, at rate 1 from an empty bucket.
C26_Witness ==
    /\ now = 2
    /\ AccrualRate = ContinuousAmountPerMs
    /\ buckets[AccruingBucket].continuousRestoreLastTimestamp = 1
    /\ buckets[AccruingBucket].tokenContent = 1
    /\ Accrued = 2

\* In state R, reached by a call at this reading of the clock, the bucket
\* holds what had accrued until the call, and accrues at newRate after it.
CreditsOldThenNew(R, newRate) ==
    /\ R.buckets[AccruingBucket].tokenContent = Accrued
    /\ \A t \in now..(MaxAccrualTime + 1) :
          Observable([R EXCEPT !.now = t], AccruingBucket)
              = Min(MaxTokens, Accrued + newRate * (t - now))

\* C27: a continuous restorer added or removed at time T leaves the bucket
\* with the accrual until T credited at the rate it had, and accruing from T
\* at the new rate; the first continuous restorer of a bucket credits
\* nothing for the time before it was added.
C27_RateChangeSplitsAccrualAtTheCall ==
    \A r \in ContinuousRestorers :
        /\ r \notin buckets[AccruingBucket].continuousTokenRestorers =>
              CreditsOldThenNew(addTokenRestorer(RCur, AccruingBucket, r),
                                AccrualRate + RatePerMs(r))
        /\ r \in buckets[AccruingBucket].continuousTokenRestorers =>
              CreditsOldThenNew(removeTokenRestorer(RCur, AccruingBucket, r),
                                AccrualRate - RatePerMs(r))
        /\ buckets[AccruingBucket].continuousTokenRestorers = {} =>
              addTokenRestorer(RCur, AccruingBucket, r).buckets[AccruingBucket].tokenContent
                  = buckets[AccruingBucket].tokenContent

\* The second restorer is added at time 1 to a bucket that started empty at
\* rate 1: one token is credited for the first millisecond, and the bucket
\* was given its first restorer after the clock had advanced.
C27_Witness ==
    /\ now = 2
    /\ buckets[AccruingBucket].continuousTokenRestorers = {"continuous"}
    /\ buckets[AccruingBucket].continuousRestoreLastTimestamp = 1
    /\ buckets[AccruingBucket].tokenContent = 0
    /\ Accrued = 1
    /\ addTokenRestorer(RCur, AccruingBucket, "continuous2").buckets[AccruingBucket].tokenContent = 1
    /\ Observable([addTokenRestorer(RCur, AccruingBucket, "continuous2") EXCEPT !.now = 3],
                  AccruingBucket) = MaxTokens

\* ------------------------------------------------------------------------
\* A RollingWindowTokenBucket, its callers and the event loop under fair
\* scheduling: a timeout that is due is run, and the clock moves on.  The
\* callers are free to call or not.
WindowInit == BucketInit /\ rolling

WindowNext ==
    \/ ConsumeTokensAny
    \/ OnceTokensAvailableAny
    \/ AddTokenRestorerAny
    \/ RemoveTokenRestorerAny
    \/ DisconnectRestorers
    \/ FireCheckListeners
    \/ FireCleanUp
    \/ SyncTick

\* ENABLED FireCheckListeners and ENABLED FireCleanUp, written out.
CheckListenersDue ==
    microtasks = <<>> /\ checkListenersHandle # 0 /\ checkListenersHandle <= now
CleanUpDue == microtasks = <<>> /\ cleanUpHandle # 0 /\ cleanUpHandle <= now

WindowSpec ==
    /\ WindowInit
    /\ [][WindowNext]_vars
    /\ WF_vars(SyncTick)
    /\ (<>[](~CheckListenersDue) \/ []<><<FireCheckListeners>>_vars)
    /\ (<>[](~CleanUpDue) \/ []<><<FireCleanUp>>_vars)

\* ------------------------------------------------------------------------
\* Claims about the waiters of a bucket.
IsWaiting(c) == c \in DOMAIN calls /\ calls[c].op = "once" /\ calls[c].state = "waiting"

\* The tokens are in the bucket, the window budget does not cover the demand.
BlockedByWindowOnly(c) ==
    /\ IsWaiting(c)
    /\ calls[c].count <= consumableTokens_Raw(BCur)
    /\ calls[c].count > consumableTokens(BCur)

\* The clock of the model has reached its last instant with the ledger
\* still in the way.
WindowStillClosed(c) == now = MaxBucketTime /\ BlockedByWindowOnly(c)

\* Somebody took the tokens the waiter was to have.
NoLongerCovered(c) == IsWaiting(c) /\ calls[c].count > consumableTokens_Raw(BCur)

\* C28: a waiter of a rolling-window bucket whose demand the content covers
\* and the window budget does not is resolved once the ledger entries in its
\* way have expired, by the bucket's own timers, whatever the aggregate
\* continuous rate is, zero included.
C28_WindowWaiterIsResolvedOnExpiry ==
    \A c \in 1..MaxCalls :
        BlockedByWindowOnly(c) ~>
            (~IsWaiting(c) \/ NoLongerCovered(c) \/ WindowStillClosed(c))

\* One pass of the loop of _checkListeners over state B.
CheckPass(B) == resolveTokenListeners(afterGetConsumableTokens(B), consumableTokens(B))

\* The calls of the listeners ls that await their promise in a job.
ResumedBy(ls) ==
    LET asyncOnes == SelectSeq(ls, LAMBDA l : calls[l.id].op = "async")
    IN [k \in DOMAIN asyncOnes |-> Job("resume", asyncOnes[k].id)]

\* Call c of state B was waiting and its promise is now resolved.
ResolvedIn(B, c) ==
    \/ B.calls[c].state = "woken"
    \/ B.calls[c].state = "settled" /\ B.calls[c].promise = Fulfilled

\* C29: a check pass removes from the registry, from the smallest demand on,
\* exactly the waiters whose demand the consumable tokens cover, resolves
\* them in that order, and leaves the others registered and untouched; it
\* takes no token from the bucket.  A recheck (by timer or not) that finds
\* nobody to resolve changes nothing but the timer, and whoever it resolves
\* has a demand the consumable tokens cover.
C29_CheckPassResolvesExactlyTheCovered ==
    tokenListeners # <<>> =>
        LET consumable == consumableTokens(BCur)
            B2 == CheckPass(BCur)
            n == Len(tokenListeners) - Len(B2.tokenListeners)
            resolved == SubSeq(tokenListeners, 1, n)
            B3 == TokenBucket_checkListeners(BCur)
        IN /\ \A i, j \in DOMAIN tokenListeners :
                 i < j => tokenListeners[i].count <= tokenListeners[j].count
           /\ B2.tokenListeners = SubSeq(tokenListeners, n + 1, Len(tokenListeners))
           /\ \A i \in 1..n :
                 /\ tokenListeners[i].count <= consumable
                 /\ calls[tokenListeners[i].id].state = "waiting"
                        => ResolvedIn(B2, tokenListeners[i].id)
           /\ \A i \in (n + 1)..Len(tokenListeners) :
                 /\ tokenListeners[i].count > consumable
                 /\ B2.calls[tokenListeners[i].id] = calls[tokenListeners[i].id]
           /\ B2.microtasks = microtasks \o ResumedBy(resolved)
           /\ B2.tokenContent = consumableTokens_Raw(BCur)
           /\ B2.history = cleanupHistoricTokens(BCur).history
           /\ \A i \in DOMAIN B3.tokenListeners :
                 B3.tokenListeners[i].count > consumableTokens(B3)
           /\ \A c \in DOMAIN calls :
                 B3.calls[c] # calls[c] =>
                     /\ \E i \in DOMAIN tokenListeners : tokenListeners[i].id = c
                     /\ calls[c].count <= consumableTokens(B3)
           /\ B3.tokenContent = consumableTokens_Raw([BCur EXCEPT !.now = B3.now])
           /\ (Head(tokenListeners).count > consumable /\ B3.now = now) =>
                 B3 = [afterGetConsumableTokens(BCur) EXCEPT
                          !.checkListenersHandle = B3.checkListenersHandle]

\* Two waiters and a recheck timer that is due, with tokens for the smaller
\* demand only: the pass resolves one and leaves the other.
C29_Witness ==
    /\ Len(tokenListeners) = 2
    /\ CheckListenersDue
    /\ Len(CheckPass(BCur).tokenListeners) = 1
    /\ \A i \in DOMAIN tokenListeners : calls[tokenListeners[i].id].state = "waiting"

\* A plain TokenBucket without continuous accrual, all of whose waiters ask
\* for more than it holds.
StarvedPlainBucket ==
    /\ ~rolling
    /\ continuousRestoreRatePerMs = 0
    /\ tokenListeners # <<>>
    /\ \A i \in DOMAIN tokenListeners : tokenListeners[i].count > tokenContent

\* The state after a tick of the periodic restorer, and after the first
\* continuous restorer is added.
AfterPeriodicTick == TokenBucket_checkListeners(addTokensToBucket(BCur, RestoreAmount))
AfterFirstContinuous == addOrRemoveContinuousRestorer(BCur, "continuous", TRUE)

\* The recheck timeout armed in state B fires on time.
AfterRecheckOf(B) == TokenBucket_checkListeners([B EXCEPT !.now = B.checkListenersHandle])

NoRecheckWhileStarved == StarvedPlainBucket => checkListenersHandle = 0

\* From a starved bucket a waiter is resolved by nothing but a tick that
\* raises the content to its demand.
ResolvedByTickAlone ==
    StarvedPlainBucket =>
        \A c \in Calls :
            (calls[c].state = "waiting" /\ WaitResolvedInStep(c)) =>
                /\ "periodic" \in discreteTokenRestorers
                /\ tokenContent' > tokenContent
                /\ calls[c].count <= tokenContent'

\* What a tick, or the addition of a continuous restorer, does for the
\* waiters of a starved bucket.
WokenByTickOrAddition ==
    StarvedPlainBucket =>
        /\ "periodic" \in discreteTokenRestorers =>
              \A i \in DOMAIN tokenListeners :
                 LET l == tokenListeners[i]
                 IN IF l.count <= Min(MaxTokens, tokenContent + RestoreAmount)
                    THEN calls[l.id].state = "waiting" => ResolvedIn(AfterPeriodicTick, l.id)
                    ELSE AfterPeriodicTick.calls[l.id] = calls[l.id]
        /\ LET B3 == AfterFirstContinuous
               first == Head(tokenListeners)
           IN /\ B3.checkListenersHandle =
                     now + CeilDiv(first.count - tokenContent, ContinuousAmountPerMs)
              /\ B3.calls = calls
              /\ calls[first.id].state = "waiting" => ResolvedIn(AfterRecheckOf(B3), first.id)

\* C30: in a plain TokenBucket with an aggregate continuous rate of zero
\* whose waiters all ask for more than tokenContent, no recheck timeout is
\* armed; a waiter is resolved from there only by a tick of a discrete
\* restorer that raises the content to its demand, and it is resolved by
\* that tick; once a continuous restorer is added the recheck is armed for
\* the moment the accrual covers the smallest demand, and resolves it then.
C30_StarvedWaiterWaitsForTickOrRestorer ==
    /\ [](NoRecheckWhileStarved /\ WokenByTickOrAddition)
    /\ [][ResolvedByTickAlone]_vars

\* Two waiters on an empty plain bucket with a periodic restorer and no
\* continuous one, after time has passed: the tick resolves the smaller.
C30_Witness ==
    /\ StarvedPlainBucket
    /\ now > 0
    /\ tokenContent = 0
    /\ "periodic" \in discreteTokenRestorers
    /\ Len(tokenListeners) = 2
    /\ Len(AfterPeriodicTick.tokenListeners) = 1
    /\ AfterFirstContinuous.checkListenersHandle = now + 1

\* ------------------------------------------------------------------------
\* Claims about the clean-up of the ledger.
NewestEntry == history[Len(history)]

\* The clean-up timeout is armed for the newest entry of the ledger.
CleanUpArmedForNewest ==
    (rolling /\ history # <<>>) =>
        cleanUpHandle = NewestEntry.at + HistoryIntervalMs + CleanUpExtraMs

\* The clean-up timeout, run when it is due, leaves the ledger empty.
DueCleanUpEmptiesLedger ==
    CleanUpDue => cleanupHistoricTokens(BCur).history = <<>>

\* The clock of the model has reached its last instant before the clean-up
\* is due.
CleanUpStillAhead == now = MaxBucketTime /\ cleanUpHandle > now

\* C31: the ledger keeps no stale entry while the bucket is idle.  Every
\* consumption arms the one clean-up timeout anew, historyIntervalMs and the
\* extra time after its own insert; when that timeout runs, every entry is
\* older than the window and the ledger is emptied; so a ledger that is not
\* empty is emptied by the timeout alone, without a call on the bucket.
C31_IdleLedgerIsEmptied ==
    /\ [](CleanUpArmedForNewest /\ DueCleanUpEmptiesLedger)
    /\ (history # <<>>) ~> (history = <<>> \/ CleanUpStillAhead)

\* The clean-up timeout is due with the entry of a consumption that was
\* followed by no other still in the ledger.
C31_Witness ==
    /\ rolling
    /\ CleanUpDue
    /\ now = MaxBucketTime
    /\ history # <<>>
    /\ NewestEntry.at = 0
    /\ tokenListeners = <<>>

\* ------------------------------------------------------------------------
\* Claim C32: no priority key of the queue maps to an empty FIFO sequence

\* The priority groups of the queue that hold no awaiter.
EmptyGroups == {k \in DOMAIN awaiters : Len(awaiters[k]) <= 0}

\* Removing the only awaiter of group k (what service and cancel both call)
\* removes the key k itself and leaves every other group as it was.
RemovingLastRemovesKey ==
    \A k \in DOMAIN awaiters :
        Len(awaiters[k]) = 1 =>
            LET after == removeFirstAwaiter(awaiters, k, Head(awaiters[k]))
            IN /\ DOMAIN after = DOMAIN awaiters \ {k}
               /\ \A j \in DOMAIN after : after[j] = awaiters[j]

\* C32: in every reachable state of the limiter no priority key of the queue
\* holds an empty sequence, removing the last awaiter of a priority removes
\* its key in the same step, and so the highest key holds a head awaiter.
C32_NoEmptyPriorityGroup ==
    /\ EmptyGroups = {}
    /\ RemovingLastRemovesKey
    /\ DOMAIN awaiters # {} =>
           /\ awaiters[EndKey(awaiters)] # <<>>
           /\ FirstHighestPriorityAwaiter(awaiters).id \in Queued(awaiters)

\* The only awaiter of the higher priority was cancelled while a lower
\* priority is still queued: its key is gone and the lower group is the head.
C32_Witness ==
    /\ Len(requests) = 2
    /\ requests[2].promise.kind = "CanceledError"
    /\ DOMAIN awaiters = {1}
    /\ GroupIds(awaiters, 1) = {1}
    /\ EmptyGroups = {}

\* ------------------------------------------------------------------------
\* Claim C33: no lost wake-up in the bucket

\* The registered waiters whose demand the consumable tokens cover.
CoveredWaiters ==
    {i \in 1..Len(tokenListeners) : tokenListeners[i].count <= consumableTokens(BCur)}

\* A covered waiter is left behind: no recheck timeout is armed that would
\* still resolve it.
WakeUpLost == CoveredWaiters # {} /\ checkListenersHandle = 0

\* The step is a call of the bucket or one of its callbacks, not the mere
\* passing of time.
BucketOperation == ~BucketTick(MaxBucketTime)

\* The step removes the last continuous restorer, by removeTokenRestorer or
\* by disconnectRestorers.
LastContinuousRemoved ==
    continuousRestoreRatePerMs > 0 /\ continuousRestoreRatePerMs' = 0

\* C33: when a bucket operation or a timer or tick callback has returned, no
\* registered waiter with a demand at or below the consumable tokens is left
\* behind; in particular none is when the last continuous restorer is removed.
C33_NoLostWakeUp ==
    /\ [][BucketOperation => ~WakeUpLost']_vars
    /\ [][LastContinuousRemoved => CoveredWaiters' = {}]_vars

\* The same, for operations that leave the bucket with a rate above zero.
C33_NoLostWakeUpWhileAccruing ==
    [][(BucketOperation /\ continuousRestoreRatePerMs' > 0) => ~WakeUpLost']_vars

\* ------------------------------------------------------------------------
\* Claim C34: the synchronous recheck never spins

\* _scheduleCheckListeners on B computes the wait time 0 and calls
\* _checkListeners synchronously.
SynchronousRecheck(B) ==
    /\ B.tokenListeners # <<>>
    /\ getWaitTimeForRecheck([B EXCEPT !.checkListenersHandle = 0]) = Finite(0)

\* When the recheck timeout runs, the _scheduleCheckListeners that ends its
\* pass calls _checkListeners again only if that second pass resolves a waiter.
DueRecheckTerminates ==
    (CheckListenersDue /\ tokenListeners # <<>>) =>
        LET B == CheckPass(BCur)
        IN SynchronousRecheck(B) => CheckPass(B).tokenListeners # B.tokenListeners

\* C34: a synchronous recheck resolves at least one waiter, so that no call
\* and no callback of the bucket needs the clock to move on before it returns.
C34_RecheckNeverSpins ==
    /\ []DueRecheckTerminates
    /\ [][BucketOperation => now' = now]_vars

\* The same for a plain TokenBucket only.
C34_PlainRecheckNeverSpins ==
    /\ [](~rolling => DueRecheckTerminates)
    /\ [][(BucketOperation /\ ~rolling) => now' = now]_vars

\* ------------------------------------------------------------------------
\* Claim C35: with a rate above zero every accepted waiter is resolved

\* Call c waits while the bucket accrues and holds t tokens.
WaitsWhileAccruing(c, t) ==
    /\ IsWaiting(c)
    /\ continuousRestoreRatePerMs > 0
    /\ consumableTokens_Raw(BCur) = t

\* The bucket accrues no more, or tokens were taken out of it since it held t.
AccrualDisturbed(t) ==
    continuousRestoreRatePerMs = 0 \/ consumableTokens_Raw(BCur) < t

\* The clock of the model has reached its last instant with the recheck
\* timeout still ahead.
RecheckStillAhead == now = MaxBucketTime /\ checkListenersHandle > now

\* C35: while the aggregate continuous rate is above zero and nobody consumes,
\* every waiter that onceTokensAvailable accepted is eventually resolved, on a
\* rolling-window bucket also one that asks for more than maxHistoryTokens.
C35_AcceptedWaiterIsResolved ==
    \A c \in 1..MaxCalls : \A t \in 0..MaxTokens :
        WaitsWhileAccruing(c, t) ~>
            (~IsWaiting(c) \/ AccrualDisturbed(t) \/ RecheckStillAhead)

\* The same for the waiters that ask for no more than maxHistoryTokens.
C35_WaiterWithinBudgetIsResolved ==
    \A c \in 1..MaxCalls : \A t \in 0..MaxTokens :
        (WaitsWhileAccruing(c, t) /\ calls[c].count <= MaxHistoryTokens) ~>
            (~IsWaiting(c) \/ AccrualDisturbed(t) \/ RecheckStillAhead)

\* ------------------------------------------------------------------------
\* Claim C36: one recheck timeout, armed only while somebody waits

\* The recheck timeout is armed only while the registry holds a waiter.
ArmedOnlyWhileWaited == checkListenersHandle # 0 => tokenListeners # <<>>

\* _scheduleCheckListeners leaves no timeout behind that was armed before it
\* ran: the handle it leaves is none, or that of a timeout it armed itself,
\* for a later reading of the clock.
ReplacesArmedTimeout ==
    LET B == TokenBucket_scheduleCheckListeners(BCur)
    IN B.checkListenersHandle = 0 \/ B.checkListenersHandle > B.now

\* The step takes the last waiter out of the registry.
LastWaiterLeaves == tokenListeners # <<>> /\ tokenListeners' = <<>>

\* C36: the bucket's one recheck timeout is replaced, never doubled, by a
\* rescheduling, it is armed only while the registry of waiters is not
\* empty, and the step that resolves or cancels the last waiter leaves none
\* armed.
C36_RecheckOnlyWhileWaited ==
    /\ [](ArmedOnlyWhileWaited /\ ReplacesArmedTimeout)
    /\ [][LastWaiterLeaves => checkListenersHandle' = 0]_vars

\* The last waiter was cancelled while the bucket was still accruing the
\* tokens it waited for: the recheck timeout armed for it is gone.
C36_Witness ==
    /\ tokenListeners = <<>>
    /\ checkListenersHandle = 0
    /\ continuousRestoreRatePerMs > 0
    /\ \E c \in Calls :
          /\ calls[c].op = "once"
          /\ calls[c].promise = CanceledError
          /\ calls[c].count > consumableTokens_Raw(BCur)

\* ------------------------------------------------------------------------
\* Claim C37: queued awaiters are unsettled, settled awaiters are not queued

\* The requests whose promise is settled.
SettledRequests == {a \in DOMAIN requests : IsSettled(requests[a].promise)}

\* The step settles the promise of request a.
Settles(a) ==
    /\ a \in DOMAIN requests
    /\ ~IsSettled(requests[a].promise)
    /\ IsSettled(requests'[a].promise)

\* C37: in every reachable state of the limiter no queued awaiter is settled;
\* the step that resolves, cancels or rejects an awaiter takes it out of the
\* queue; so the head a watcher selects is never settled, and the promise of
\* an awaiter, once settled, stays as it is.
C37_QueuedIffUnsettled ==
    /\ [](Queued(awaiters) \cap SettledRequests = {})
    /\ [](DOMAIN awaiters # {} =>
              FirstHighestPriorityAwaiter(awaiters).id \notin SettledRequests)
    /\ [][\A a \in 1..MaxRequests :
             Settles(a) => (a \in Queued(awaiters) /\ a \notin Queued(awaiters'))]_vars
    /\ [][\A a \in SettledRequests : requests'[a].promise = requests[a].promise]_vars

\* One request was served and resolved while the other is still queued and
\* pending.
C37_Witness ==
    /\ Len(requests) = 2
    /\ requests[1].promise = Fulfilled
    /\ requests[2].promise = Pending
    /\ Queued(awaiters) = {2}

\* ------------------------------------------------------------------------
\* Claim C38: the limiter leaves no orphaned waiter in the bucket

\* The watchers on whose behalf a waiter is registered in the bucket.
WaitedFor == {tokenListeners[i].w : i \in 1..Len(tokenListeners)}

\* Every async function of the watcher chain has returned and nothing of it
\* is left to run.
ChainSettled ==
    /\ microtasks = <<>>
    /\ timers = {}
    /\ \A w \in 1..Len(watchers) : watchers[w].pc \in {"done", "collected"}

\* Every waiter of the bucket belongs to a watcher that is suspended in the
\* race on its bucket call, where a cancel or the resolution reaches it.
WaiterHasLiveWatcher ==
    \A w \in WaitedFor :
        /\ w \in 1..Len(watchers)
        /\ watchers[w].pc = "consume"
        /\ watchers[w].callState = "waiting"

\* C38: at any time the bucket's registry holds at most one waiter of the
\* limiter, that of a watcher still suspended on its bucket call, and none
\* once the limiter's queue is empty and its watcher chain has settled.
C38_NoOrphanedBucketWaiter ==
    /\ Len(tokenListeners) <= 1
    /\ WaiterHasLiveWatcher
    /\ (Queued(awaiters) = {} /\ ChainSettled) => tokenListeners = <<>>

\* The user cancelled the awaiter under service while its watcher waited in
\* the bucket: the queue is empty, the watcher is cancelled and its waiter is
\* still registered, to be removed when the watcher resumes.
C38_Witness ==
    /\ Queued(awaiters) = {}
    /\ Len(tokenListeners) = 1
    /\ \E w \in WaitedFor :
          /\ watchers[w].isCanceled
          /\ requests[watchers[w].awaiter.id].promise = CanceledError
=============================================================================
